---- MODULE Spec2Model ----
(***************************************************************************)
(* A model of burst_db: the current frame database builder                 *)
(* (build_frame_db.py), the legacy builder (make_frame_db.py) and the land *)
(* shape cache (_land_usgs.py).                                            *)
(*                                                                         *)
(* Angles are whole degrees.  A geometry is the record of what the code    *)
(* reads from it: its type, its parts (area and centroid longitude of      *)
(* each), its centroid (cx, cy) and whether it intersects the Greenland    *)
(* polygon.                                                                *)
(***************************************************************************)
EXTENDS Integers, Sequences, FiniteSets, TLC

VARIABLES
    call,           \* the operation invoked last, with its arguments
    ret,            \* what that operation returned or raised
    burst_id_map,   \* rows of the burst_id_map table of the output database
    n_bursts,       \* make_frame_db.py: the module-level name n_bursts,
                    \* <<>> while unbound and <<v>> once bound to v
    fs,             \* the files of the land cache: path -> <<>> or <<content>>
    effects,        \* what the operation invoked last called on the way
    cwd,            \* the working directory of the process
    pc,             \* where a procedure that runs in steps stands
    out,            \* the rows written to the output file of a query
    frames,         \* rows of the frames table of the output database
    frames_bursts,  \* rows of the join table of the output database
    done,           \* the steps create has completed, in order
    gpkg_spatial_ref_sys,   \* rows of that table of the output database
    spatial_ref_sys         \* rows of that table of the output database

\* The variables of the build and query procedures.
srsVars == <<gpkg_spatial_ref_sys, spatial_ref_sys>>
buildVars == <<cwd, pc, out, frames, frames_bursts, done, srsVars>>

vars == <<call, ret, burst_id_map, n_bursts, fs, effects, cwd, pc, out,
          frames, frames_bursts, done, gpkg_spatial_ref_sys, spatial_ref_sys>>

(***************************************************************************)
(* Bounds of the model.                                                    *)
(***************************************************************************)
MaxFrames == 2      \* rows of the frames table handed to get_epsg_codes
MaxParts == 2       \* parts of a multipolygon handed to antimeridian_epsg
MaxBursts == 2      \* rows of burst_id_map
MaxTrackLen == 5    \* distinct burst ids of one track
MaxPerFrame == 3    \* n_bursts_per_frame
MaxRows == 2        \* rows of a burst table handed to make_jpl_burst_id

(***************************************************************************)
(* Program constants, build_frame_db.py.                                   *)
(***************************************************************************)
NORTH_THRESHOLD == 75
NORTH_EPSG == 3413
SOUTH_THRESHOLD == -60
SOUTH_EPSG == 3031

\* A module-level name that no statement has bound yet.
Unbound == <<>>

\* A file system without any file of the land cache.
NoFiles == <<>>
\* An option absent from the command line (argparse leaves it None).
NoOption == <<>>

\* No build or query procedure has started.
BuildIdle ==
    /\ cwd = "/home"
    /\ pc = "idle"
    /\ out = <<>>
    /\ frames = <<>>
    /\ frames_bursts = <<>>
    /\ done = <<>>
    /\ gpkg_spatial_ref_sys = {}
    /\ spatial_ref_sys = {}

Ok(v) == [err |-> "none", val |-> v]
Raise(e) == [err |-> e, val |-> <<>>]

(***************************************************************************)
(* numpy boolean-mask helpers used by get_epsg_codes.                      *)
(***************************************************************************)
MaskCount(mask) == Cardinality({i \in DOMAIN mask : mask[i]})
MaskRank(mask, i) == Cardinality({j \in 1..i : mask[j]})

\* seq[mask]: the elements under the mask, in order.
Pick(seq, mask) ==
    [k \in 1..MaskCount(mask) |->
        seq[CHOOSE i \in DOMAIN seq : mask[i] /\ MaskRank(mask, i) = k]]

\* arr[mask] = vals with a 1-d array vals: element-wise when the lengths
\* agree, broadcast when vals has one element, ValueError otherwise.
MaskAssign(arr, mask, vals) ==
    IF Len(vals) = MaskCount(mask)
    THEN Ok([i \in DOMAIN arr |->
                IF mask[i] THEN vals[MaskRank(mask, i)] ELSE arr[i]])
    ELSE IF Len(vals) = 1
    THEN Ok([i \in DOMAIN arr |-> IF mask[i] THEN vals[1] ELSE arr[i]])
    ELSE Raise("ValueError")

\* arr[mask] = scalar
MaskFill(arr, mask, v) == [i \in DOMAIN arr |-> IF mask[i] THEN v ELSE arr[i]]

(***************************************************************************)
(* utm.from_latlon(lat, lon)[2]: the UTM zone number, with the Norway and  *)
(* Svalbard exceptions.                                                    *)
(***************************************************************************)
latlon_to_zone_number(lat, lon) ==
    IF 56 <= lat /\ lat < 64 /\ 3 <= lon /\ lon < 12 THEN 32
    ELSE IF 72 <= lat /\ lat <= 84 /\ lon >= 0 /\ lon < 9 THEN 31
    ELSE IF 72 <= lat /\ lat <= 84 /\ lon >= 0 /\ lon < 21 THEN 33
    ELSE IF 72 <= lat /\ lat <= 84 /\ lon >= 0 /\ lon < 33 THEN 35
    ELSE IF 72 <= lat /\ lat <= 84 /\ lon >= 0 /\ lon < 42 THEN 37
    ELSE (((lon + 180) \div 6) % 60) + 1

(***************************************************************************)
(* antimeridian_epsg (current builder).  The loop over mp.geoms keeps the  *)
(* running sums A and x_weighted; x_c = x_weighted / A is compared with    *)
(* 180 exactly (x_c > 180 iff x_weighted > 180 * A, as A > 0).             *)
(***************************************************************************)
RECURSIVE AmLoop(_, _)
AmLoop(geoms, k) ==
    IF k = 0 THEN [A |-> 0, x_weighted |-> 0]
    ELSE LET acc == AmLoop(geoms, k - 1)
             g == geoms[k]
         IN  [A |-> acc.A + g.area,
              x_weighted |->
                  IF g.cx < 0
                  THEN acc.x_weighted + (g.cx + 360) * g.area
                  ELSE acc.x_weighted + g.cx * g.area]

AmUnweightedEpsg(mp) ==
    LET n == Len(mp.geoms)
        s == AmLoop([i \in 1..n |-> [area |-> 1, cx |-> mp.geoms[i].cx]], n)
    IN  IF mp.cy >= NORTH_THRESHOLD THEN NORTH_EPSG
        ELSE IF mp.cy <= SOUTH_THRESHOLD THEN SOUTH_EPSG
        ELSE (IF mp.cy > 0 THEN 32600 ELSE 32700)
             + (IF s.x_weighted > 180 * s.A THEN 1 ELSE 60)

antimeridian_epsg(mp) ==
    LET y_c == mp.cy
        acc == AmLoop(mp.geoms, Len(mp.geoms))
        base == IF y_c > 0 THEN 32600 ELSE 32700
        zone_addition == IF acc.x_weighted > 180 * acc.A THEN 1 ELSE 60
    IN  IF y_c >= NORTH_THRESHOLD THEN NORTH_EPSG
        ELSE IF y_c <= SOUTH_THRESHOLD THEN SOUTH_EPSG
        ELSE base + zone_addition

(***************************************************************************)
(* get_land_indicator: STRtree.query gives the positions (from 0) of the   *)
(* geometries that intersect land_geom; the result marks the rows whose    *)
(* index label is one of those positions.                                  *)
(***************************************************************************)
Intersects(geom, land_geom) ==
    IF land_geom = "greenland" THEN geom.greenland ELSE FALSE

\* The index of a table read with gpd.read_file: 0, 1, 2, ...
RangeIndex(n) == [i \in 1..n |-> i - 1]

LandIndicatorShifted(gdf, index, land_geom) ==
    LET idxs_land == {i \in DOMAIN gdf : Intersects(gdf[i], land_geom)}
    IN  [i \in DOMAIN gdf |-> index[i] \in idxs_land]

get_land_indicator(gdf, index, land_geom) ==
    LET idxs_land == {i - 1 : i \in {j \in DOMAIN gdf : Intersects(gdf[j], land_geom)}}
    IN  [i \in DOMAIN gdf |-> index[i] \in idxs_land]

(***************************************************************************)
(* get_epsg_codes (current builder).                                       *)
(***************************************************************************)
_is_on_antimeridian(geom) ==
    geom.geom_type = "MultiPolygon" /\ Len(geom.geoms) > 1

\* The three branches of get_epsg_codes, as the masks the code builds.
AmBranch(g) == _is_on_antimeridian(g)
PolarBranch(g) ==
    /\ ~_is_on_antimeridian(g)
    /\ (g.cy > NORTH_THRESHOLD \/ g.cy < SOUTH_THRESHOLD)
UtmBranch(g) ==
    /\ ~_is_on_antimeridian(g)
    /\ \/ (g.cy < NORTH_THRESHOLD /\ g.cy > 0)
       \/ (g.cy > SOUTH_THRESHOLD /\ g.cy < 0)

\* Lines 202-244: the codes before the Greenland override.
BranchCodes(df) ==
    LET n == Len(df)
        zeros == [i \in 1..n |-> 0]
        am_idxs == [i \in 1..n |-> _is_on_antimeridian(df[i])]
        not_am == [i \in 1..n |-> ~am_idxs[i]]
        e1 == [i \in 1..n |->
                  IF am_idxs[i] THEN antimeridian_epsg(df[i]) ELSE zeros[i]]
        \* the centroids of the other rows, ys[utm_idxs] and its halves
        others == Pick(df, not_am)
        utm_idxs == [k \in DOMAIN others |->
                        others[k].cy < NORTH_THRESHOLD
                        /\ others[k].cy > SOUTH_THRESHOLD]
        utm_rows == Pick(others, utm_idxs)
        north_idxs == [k \in DOMAIN utm_rows |-> utm_rows[k].cy > 0]
        south_idxs == [k \in DOMAIN utm_rows |-> ~north_idxs[k]]
        e2 == MaskFill(e1,
                  [i \in 1..n |-> not_am[i] /\ df[i].cy > NORTH_THRESHOLD],
                  NORTH_EPSG)
        e3 == MaskFill(e2,
                  [i \in 1..n |-> not_am[i] /\ df[i].cy < SOUTH_THRESHOLD],
                  SOUTH_EPSG)
        rows_north == Pick(utm_rows, north_idxs)
        zones_north == [k \in DOMAIN rows_north |->
            32600 + latlon_to_zone_number(rows_north[k].cy, rows_north[k].cx)]
        e4 == MaskAssign(e3,
                  [i \in 1..n |-> not_am[i] /\ df[i].cy < NORTH_THRESHOLD
                                  /\ df[i].cy > 0],
                  zones_north)
        rows_south == Pick(utm_rows, south_idxs)
        zones_south == [k \in DOMAIN rows_south |->
            32700 + latlon_to_zone_number(rows_south[k].cy, rows_south[k].cx)]
    IN  IF Len(others) = 0
        THEN Raise("ValueError")          \* xs, ys = other_coords.T
        ELSE IF e4.err # "none" THEN e4
        ELSE MaskAssign(e4.val,
                 [i \in 1..n |-> not_am[i] /\ df[i].cy > SOUTH_THRESHOLD
                                 /\ df[i].cy < 0],
                 zones_south)

get_epsg_codes(df) ==
    LET epsgs == BranchCodes(df)
        is_in_greenland ==
            get_land_indicator(df, RangeIndex(Len(df)), "greenland")
    IN  IF epsgs.err # "none" THEN epsgs
        ELSE Ok(MaskFill(epsgs.val, is_in_greenland, NORTH_EPSG))

(***************************************************************************)
(* Inputs.                                                                 *)
(***************************************************************************)
Lats == {-61, -60, -59, -1, 0, 1, 60, 74, 75, 76}
PartLons == {-179, 179}
Areas == {1, 3}

Part(a, x) == [area |-> a, cx |-> x]

\* A polygon of area 1 outside Greenland with its centroid at (x, y).
Polygon(x, y) ==
    [geom_type |-> "Polygon", geoms |-> <<Part(1, x)>>,
     cx |-> x, cy |-> y, greenland |-> FALSE]

\* Single polygons and one-part multipolygons: every latitude at longitude
\* 5, and longitude 10 where the zone exceptions apply.
PlainGeoms ==
    {[geom_type |-> "Polygon", geoms |-> <<Part(1, 5)>>,
      cx |-> 5, cy |-> y, greenland |-> gl] : y \in Lats, gl \in BOOLEAN}
    \cup
    {[geom_type |-> "Polygon", geoms |-> <<Part(1, 10)>>,
      cx |-> 10, cy |-> y, greenland |-> FALSE] : y \in {60, 74}}
    \cup
    {[geom_type |-> "MultiPolygon", geoms |-> <<Part(1, 5)>>,
      cx |-> 5, cy |-> y, greenland |-> FALSE] : y \in {-60, 60}}

\* Multipolygons of two or more parts, one on each side of the antimeridian.
PartSeqs == UNION {[1..n -> {Part(a, x) : a \in Areas, x \in PartLons}] :
                      n \in 2..MaxParts}
AmGeoms ==
    {[geom_type |-> "MultiPolygon", geoms |-> ps,
      cx |-> 0, cy |-> y, greenland |-> gl] :
        ps \in PartSeqs, y \in Lats, gl \in BOOLEAN}

\* The antimeridian rows of the tables handed to get_epsg_codes.
TableAmGeoms ==
    {g \in AmGeoms :
        /\ Len(g.geoms) = 2
        /\ g.geoms[1] = Part(1, 179)
        /\ g.geoms[2].cx = -179
        /\ g.cy \in {-60, -1, 1, 75}
        /\ g.greenland => (g.cy = 1 /\ g.geoms[2].area = 1)}

Tables == UNION {[1..n -> PlainGeoms \cup TableAmGeoms] : n \in 1..MaxFrames}

(***************************************************************************)
(* Specification of the EPSG assignment: a call is drawn, the function is  *)
(* applied to it once.                                                     *)
(***************************************************************************)
Pending == [err |-> "pending", val |-> <<>>]

InitEpsg ==
    /\ call \in {[op |-> "get_epsg_codes", df |-> df] : df \in Tables}
               \cup {[op |-> "antimeridian_epsg", mp |-> mp] : mp \in AmGeoms}
    /\ ret = Pending
    /\ burst_id_map = <<>>
    /\ n_bursts = Unbound
    /\ fs = NoFiles
    /\ effects = {}
    /\ BuildIdle

GetEpsgCodes ==
    /\ call.op = "get_epsg_codes"
    /\ ret = Pending
    /\ ret' = get_epsg_codes(call.df)
    /\ UNCHANGED <<call, burst_id_map, n_bursts, fs, effects>>
    /\ UNCHANGED buildVars

AntimeridianEpsg ==
    /\ call.op = "antimeridian_epsg"
    /\ ret = Pending
    /\ ret' = Ok(antimeridian_epsg(call.mp))
    /\ UNCHANGED <<call, burst_id_map, n_bursts, fs, effects>>
    /\ UNCHANGED buildVars

NextEpsg == GetEpsgCodes \/ AntimeridianEpsg

SpecEpsg == InitEpsg /\ [][NextEpsg]_vars

(***************************************************************************)
(* Claims about the EPSG assignment.                                       *)
(***************************************************************************)
Returned(op) == call.op = op /\ ret.err = "none"

BranchesMatching(g) ==
    (IF AmBranch(g) THEN 1 ELSE 0) + (IF PolarBranch(g) THEN 1 ELSE 0)
    + (IF UtmBranch(g) THEN 1 ELSE 0)

\* C1: every code get_epsg_codes returns is non-zero, and every input
\* geometry is matched by exactly one of the antimeridian, polar and UTM
\* branches.
C1_NeverZeroOneBranch ==
    Returned("get_epsg_codes") =>
        \A i \in DOMAIN call.df :
            /\ ret.val[i] # 0
            /\ BranchesMatching(call.df[i]) = 1

\* C2: a geometry that is not antimeridian-crossing and does not intersect
\* Greenland gets 3413 at centroid latitude >= 75, 3031 at latitude <= -60,
\* and otherwise 32600 + zone for a positive latitude, 32700 + zone for a
\* negative one.
C2_LatitudeRule ==
    Returned("get_epsg_codes") =>
        \A i \in DOMAIN call.df :
            LET g == call.df[i]
                zone == latlon_to_zone_number(g.cy, g.cx)
            IN  (~_is_on_antimeridian(g) /\ ~g.greenland) =>
                    /\ g.cy >= 75 => ret.val[i] = 3413
                    /\ g.cy <= -60 => ret.val[i] = 3031
                    /\ (g.cy < 75 /\ g.cy > 0) => ret.val[i] = 32600 + zone
                    /\ (g.cy > -60 /\ g.cy < 0) => ret.val[i] = 32700 + zone

\* C3: in the array get_epsg_codes returns, every frame that intersects the
\* Greenland polygon has 3413, whatever the branches computed for it, and
\* every other frame keeps the code the branches computed.
C3_GreenlandOverride ==
    Returned("get_epsg_codes") =>
        \A i \in DOMAIN call.df :
            IF call.df[i].greenland
            THEN ret.val[i] = 3413
            ELSE ret.val[i] = BranchCodes(call.df).val[i]

\* A two-row table whose second row intersects Greenland and was given a
\* UTM code by the branches, and whose first row does not and keeps its
\* non-polar code.
C3_Witness ==
    /\ Returned("get_epsg_codes")
    /\ Len(call.df) = 2
    /\ call.df[2].greenland
    /\ BranchCodes(call.df).val[2] > 32600
    /\ ret.val[2] = 3413
    /\ ~call.df[1].greenland
    /\ ret.val[1] > 32600

ShiftedLon(p) == IF p.cx < 0 THEN p.cx + 360 ELSE p.cx

\* Sum of area * (shifted longitude - 180) over the parts: positive exactly
\* when the area-weighted mean of the shifted longitudes exceeds 180.
RECURSIVE WeightedExcess(_)
WeightedExcess(parts) ==
    IF parts = <<>> THEN 0
    ELSE Head(parts).area * (ShiftedLon(Head(parts)) - 180)
         + WeightedExcess(Tail(parts))

\* The same with every part counted once: the plain mean.
RECURSIVE PlainExcess(_)
PlainExcess(parts) ==
    IF parts = <<>> THEN 0
    ELSE (ShiftedLon(Head(parts)) - 180) + PlainExcess(Tail(parts))

\* C4: antimeridian_epsg returns 3413 at centroid latitude >= 75, 3031 at
\* latitude <= -60, and otherwise (32600 if the latitude is positive, else
\* 32700) + (1 if the area-weighted mean of the shifted part longitudes
\* exceeds 180, else 60).
C4_AntimeridianWeighted ==
    Returned("antimeridian_epsg") =>
        LET mp == call.mp
        IN  ret.val =
                IF mp.cy >= 75 THEN 3413
                ELSE IF mp.cy <= -60 THEN 3031
                ELSE (IF mp.cy > 0 THEN 32600 ELSE 32700)
                     + (IF WeightedExcess(mp.geoms) > 0 THEN 1 ELSE 60)

\* Unequal areas put the weighted mean east of 180 while the plain mean is
\* not: the result is zone 1.
C4_Witness ==
    /\ Returned("antimeridian_epsg")
    /\ call.mp.cy = 1
    /\ WeightedExcess(call.mp.geoms) > 0
    /\ PlainExcess(call.mp.geoms) <= 0
    /\ ret.val = 32601

(***************************************************************************)
(* save_utm_bounding_boxes (current builder).                              *)
(*                                                                         *)
(* Lengths are whole twentieths of a metre, so that a snap given in        *)
(* quarters of a metre and its one-decimal rendering in the SQL text are   *)
(* both exact.  A row's env is <<MinX, MinY, MaxX, MaxY>> of               *)
(* ST_Envelope(ST_Transform(geom, epsg)).                                  *)
(***************************************************************************)
\* A column value is <<>> when NULL and <<v>> when it holds v.
NULL == <<>>

(***************************************************************************)
(* SQLite evaluates the statement in IEEE-754 binary64.  The coordinates,  *)
(* the margin and the snap are not whole numbers of binary fractions, so   *)
(* the difference, the quotient and the product are each rounded to 53     *)
(* bits, ties to even.  The arithmetic below is exact: a natural number of *)
(* any size is the little-endian sequence of its digits in base Limb,      *)
(* without a leading zero digit, and a double is its sign, its 53-bit      *)
(* mantissa m and its exponent e, standing for sgn * m * 2^e.              *)
(***************************************************************************)
RECURSIVE Pow2(_)
Pow2(k) == IF k = 0 THEN 1 ELSE 2 * Pow2(k - 1)

LimbBits == 12
Limb == Pow2(LimbBits)
MantissaBits == 53

RECURSIVE Bits(_)
Bits(n) == IF n = 0 THEN 0 ELSE 1 + Bits(n \div 2)

RECURSIVE BigOf(_)
BigOf(n) == IF n = 0 THEN <<>> ELSE <<n % Limb>> \o BigOf(n \div Limb)

RECURSIVE Trim(_)
Trim(a) ==
    IF a # <<>> /\ a[Len(a)] = 0 THEN Trim(SubSeq(a, 1, Len(a) - 1)) ELSE a

Digit(a, i) == IF i <= Len(a) THEN a[i] ELSE 0

RECURSIVE AddFrom(_, _, _, _)
AddFrom(a, b, i, carry) ==
    IF i > Len(a) /\ i > Len(b) THEN BigOf(carry)
    ELSE LET t == Digit(a, i) + Digit(b, i) + carry
         IN  <<t % Limb>> \o AddFrom(a, b, i + 1, t \div Limb)
BigAdd(a, b) == AddFrom(a, b, 1, 0)

\* a - b for a >= b.
RECURSIVE SubFrom(_, _, _, _)
SubFrom(a, b, i, borrow) ==
    IF i > Len(a) THEN <<>>
    ELSE LET t == a[i] - Digit(b, i) - borrow
         IN  <<t % Limb>> \o SubFrom(a, b, i + 1, IF t < 0 THEN 1 ELSE 0)
BigSub(a, b) == Trim(SubFrom(a, b, 1, 0))

RECURSIVE CmpFrom(_, _, _)
CmpFrom(a, b, i) ==
    IF i = 0 THEN 0
    ELSE IF a[i] < b[i] THEN -1
    ELSE IF a[i] > b[i] THEN 1
    ELSE CmpFrom(a, b, i - 1)
\* -1, 0 or 1 as a is below, equal to or above b.
BigCmp(a, b) ==
    IF Len(a) < Len(b) THEN -1
    ELSE IF Len(a) > Len(b) THEN 1
    ELSE CmpFrom(a, b, Len(a))

\* a * k and a div k, a mod k for a small k (below 2^18).
RECURSIVE ScaleFrom(_, _, _, _)
ScaleFrom(a, k, i, carry) ==
    IF i > Len(a) THEN BigOf(carry)
    ELSE LET t == a[i] * k + carry
         IN  <<t % Limb>> \o ScaleFrom(a, k, i + 1, t \div Limb)
BigScale(a, k) == IF k = 0 THEN <<>> ELSE ScaleFrom(a, k, 1, 0)

RECURSIVE DivFrom(_, _, _, _)
DivFrom(a, k, i, rem) ==
    IF i = 0 THEN <<>>
    ELSE LET t == rem * Limb + a[i]
         IN  DivFrom(a, k, i - 1, t % k) \o <<t \div k>>
BigDiv(a, k) == Trim(DivFrom(a, k, Len(a), 0))

RECURSIVE ModFrom(_, _, _, _)
ModFrom(a, k, i, rem) ==
    IF i = 0 THEN rem ELSE ModFrom(a, k, i - 1, (rem * Limb + a[i]) % k)
BigMod(a, k) == ModFrom(a, k, Len(a), 0)

ShiftLimbs(a, n) == IF a = <<>> THEN <<>> ELSE [i \in 1..n |-> 0] \o a

RECURSIVE BigMul(_, _)
BigMul(a, b) ==
    IF a = <<>> \/ b = <<>> THEN <<>>
    ELSE BigAdd(BigScale(a, b[1]), ShiftLimbs(BigMul(a, Tail(b)), 1))

\* a * 2^k and a div 2^k.
BigShl(a, k) == ShiftLimbs(BigScale(a, Pow2(k % LimbBits)), k \div LimbBits)
BigShr(a, k) ==
    LET n == k \div LimbBits
    IN  IF n >= Len(a) THEN <<>>
        ELSE BigDiv(SubSeq(a, n + 1, Len(a)), Pow2(k % LimbBits))

BigBits(a) ==
    IF a = <<>> THEN 0 ELSE LimbBits * (Len(a) - 1) + Bits(a[Len(a)])
BigOdd(a) == a # <<>> /\ a[1] % 2 = 1

\* -1, 0 or 1 as a * 2^ea is below, equal to or above b * 2^eb.
CmpScaled(a, ea, b, eb) ==
    LET e == IF ea < eb THEN ea ELSE eb
    IN  BigCmp(BigShl(a, ea - e), BigShl(b, eb - e))

\* j * 2^e for j > 0, rounded to 53 bits, ties to the even mantissa: q is
\* j without its last sh bits, c compares the bits dropped with half a
\* unit of q.
RoundUp(q, c) ==
    IF c > 0 \/ (c = 0 /\ BigOdd(q)) THEN BigAdd(q, <<1>>) ELSE q
Renorm(r, e) ==
    IF BigBits(r) > MantissaBits THEN [m |-> BigShr(r, 1), e |-> e + 1]
    ELSE [m |-> r, e |-> e]
RoundAt(j, e, sh, q) ==
    Renorm(RoundUp(q, BigCmp(BigSub(j, BigShl(q, sh)),
                             BigShl(<<1>>, sh - 1))),
           e + sh)
RoundShift(j, e, sh) ==
    IF sh <= 0 THEN [m |-> BigShl(j, -sh), e |-> e + sh]
    ELSE RoundAt(j, e, sh, BigShr(j, sh))
Round53(j, e) == RoundShift(j, e, BigBits(j) - MantissaBits)

FlZero == [sgn |-> 0, m |-> <<>>, e |-> 0]
WithSign(sgn, r) == [sgn |-> sgn, m |-> r.m, e |-> r.e]
Fl(sgn, j, e) == IF j = <<>> THEN FlZero ELSE WithSign(sgn, Round53(j, e))

\* The double nearest to n / 20: what ST_MinX returns for a coordinate of n
\* twentieths, and what SQLite reads from the decimal text of the margin
\* and of the snap.  The quotient by 20 keeps GuardBits bits below the
\* unit and one more that tells whether anything was left over.
GuardBits == 64
Sticky(a) ==
    BigAdd(BigScale(BigDiv(a, 20), 2),
           IF BigMod(a, 20) = 0 THEN <<>> ELSE <<1>>)
Double(n) ==
    Fl(IF n < 0 THEN -1 ELSE 1,
       Sticky(BigShl(BigOf(IF n < 0 THEN -n ELSE n), GuardBits)),
       -(GuardBits + 1))

\* A whole number k > 0 (or k / 2 with e = -1) as a double.
FlInt(k, e) == Fl(1, BigOf(k), e)

FlNeg(x) == [x EXCEPT !.sgn = -x.sgn]

\* x + y in binary64: a and b are the mantissas at the lower exponent e,
\* c compares them.
AddSigned(x, y, a, b, e, c) ==
    Fl(IF x.sgn = y.sgn \/ c > 0 THEN x.sgn ELSE y.sgn,
       IF x.sgn = y.sgn THEN BigAdd(a, b)
       ELSE IF c >= 0 THEN BigSub(a, b) ELSE BigSub(b, a),
       e)
AddAligned(x, y, a, b, e) == AddSigned(x, y, a, b, e, BigCmp(a, b))
AddAt(x, y, e) ==
    AddAligned(x, y, BigShl(x.m, x.e - e), BigShl(y.m, y.e - e), e)
FlAdd(x, y) ==
    IF x.sgn = 0 THEN y
    ELSE IF y.sgn = 0 THEN x
    ELSE AddAt(x, y, IF x.e < y.e THEN x.e ELSE y.e)

\* The next double above th > 0, and the next below it.
SuccOf(th, m) ==
    IF BigBits(m) > MantissaBits
    THEN [th EXCEPT !.m = BigShr(m, 1), !.e = th.e + 1]
    ELSE [th EXCEPT !.m = m]
FlSucc(th) == SuccOf(th, BigAdd(th.m, <<1>>))
PredOf(th, m) ==
    IF BigBits(m) < MantissaBits
    THEN [th EXCEPT !.m = BigAdd(BigScale(m, 2), <<1>>), !.e = th.e - 1]
    ELSE [th EXCEPT !.m = m]
FlPred(th) == PredOf(th, BigSub(th.m, <<1>>))

\* Whether the double |x| / s is at least the double th > 0: the exact
\* quotient lies above the midpoint of th and the double below th, or on
\* it when the mantissa of th is even.  The comparison is by cross
\* multiplication, so it is exact; (th + below) / 2 is
\* (th.m * 2^(th.e - below.e) + below.m) * 2^(below.e - 1).
AboveMid(c, th) == c > 0 \/ (c = 0 /\ ~BigOdd(th.m))
QuotGeqMid(x, s, th, below) ==
    AboveMid(CmpScaled(x.m, x.e,
                       BigMul(s.m, BigAdd(BigShl(th.m, th.e - below.e),
                                          below.m)),
                       s.e + below.e - 1),
             th)
QuotGeq(x, s, th) == QuotGeqMid(x, s, th, FlPred(th))

\* The least double that FLOOR, CEIL and Round need |x| / s to reach for a
\* result of magnitude k >= 1.  FLOOR(q) >= k needs q >= k; CEIL(q) >= k
\* needs q > k - 1, the double after k - 1; Round(q) is the whole part of
\* the double q + 0.5, which is exact from 1.5 on (k >= 2 needs
\* q >= k - 0.5) and is 1.0 by rounding for the double just below 0.5.
NeededFrom(fn, k, b) ==
    IF fn = "CEIL" THEN FlSucc(b)
    ELSE IF fn = "Round" /\ k = 1 THEN FlPred(b)
    ELSE b
Needed(fn, k) ==
    NeededFrom(fn, k,
               FlInt(IF fn = "FLOOR" THEN k
                     ELSE IF fn = "CEIL" THEN k - 1
                     ELSE IF k = 1 THEN 1 ELSE 2 * k - 1,
                     IF fn = "Round" THEN -1 ELSE 0))

Reaches(fn, x, s, k) ==
    IF k <= 0 THEN TRUE
    ELSE IF fn = "CEIL" /\ k = 1 THEN x.sgn # 0
    ELSE x.sgn # 0 /\ QuotGeq(x, s, Needed(fn, k))

\* The greatest k >= 0 that |x| / s reaches, searched from a guess: down
\* to a k that is reached, then up to the first that is not; below says
\* that k - 1 is known to be reached.
RECURSIVE Settle(_, _, _, _, _)
Settle(fn, x, s, k, below) ==
    IF Reaches(fn, x, s, k) THEN Settle(fn, x, s, k + 1, TRUE)
    ELSE IF below THEN k - 1
    ELSE Settle(fn, x, s, k - 1, FALSE)
Magnitude(fn, x, s, guess) == Settle(fn, x, s, guess, FALSE)

RECURSIVE BigToInt(_)
BigToInt(a) == IF a = <<>> THEN 0 ELSE a[1] + Limb * BigToInt(Tail(a))

\* The whole part of |x| * 20, for |x| below 2^31 / 20.
Twentieths(x) == BigToInt(BigShr(BigScale(x.m, 20), -x.e))

FlSub(x, y) == FlAdd(x, FlNeg(y))

\* A REAL held by a column is <<v, side>>: v the nearest whole number of
\* twentieths, and side -1, 0 or 1 as the double lies below, on or above
\* the double nearest to v / 20 (62.99999999999999 is <<1260, -1>>).
\* k * s is the product of the whole number k and the double s of the
\* snap text.
Side(p, near) == near.sgn * CmpScaled(p.m, p.e, near.m, near.e)
Product(k, snap, s) ==
    IF k = 0 THEN <<0, 0>>
    ELSE <<k * snap,
           Side(Round53(BigMul(BigOf(IF k < 0 THEN -k ELSE k), s.m), s.e),
                Double(k * snap))>>

\* fn(x / snap) * snap for fn one of FLOOR, CEIL and Round, x a double and
\* snap the twentieths of the snap text; a division by zero is NULL.  The
\* sign is taken off first: FLOOR of a negative quotient is CEIL of its
\* magnitude, negated, and Round is symmetric.
Signed(sgn, k) == IF sgn < 0 THEN -k ELSE k
Towards(fn, sgn) ==
    IF fn = "Round" THEN fn
    ELSE IF (fn = "FLOOR" /\ sgn < 0) \/ (fn = "CEIL" /\ sgn > 0) THEN "CEIL"
    ELSE "FLOOR"
SnapBy(fn, x, snap, s) ==
    Product(Signed(x.sgn * s.sgn,
                   Magnitude(Towards(fn, x.sgn * s.sgn), x, s,
                             Twentieths(x) \div (IF snap < 0 THEN -snap
                                                  ELSE snap))),
            snap, s)
SqlSnap(fn, x, snap) ==
    IF snap = 0 THEN NULL ELSE SnapBy(fn, x, snap, Double(snap))

\* FLOOR(x / s) * s and CEIL(x / s) * s.
SqlFloorSnap(x, s) == SqlSnap("FLOOR", x, s)
SqlCeilSnap(x, s) == SqlSnap("CEIL", x, s)

\* f"{snap:.1f}": the snap written into the statement.  The format rounds
\* the double of the snap to one decimal: a whole number of tenths is
\* written as it is; an odd number a of twentieths lies halfway between
\* two tenths, and its double d goes to the tenth on its side of a / 20
\* (c compares 20 * d with a), to the even tenth when d is a / 20 itself,
\* which it is for the quarters only.
FormatTie(a) == IF ((a - 1) \div 2) % 2 = 0 THEN a - 1 ELSE a + 1
RoundTenth(a, c) ==
    IF c > 0 THEN a + 1 ELSE IF c < 0 THEN a - 1 ELSE FormatTie(a)
FormatOdd(a, d) ==
    RoundTenth(a, CmpScaled(BigScale(d.m, 20), d.e, BigOf(a), 0))
FormatSnap(snap) ==
    IF snap % 2 = 0 THEN snap
    ELSE Signed(snap, FormatOdd(Signed(snap, snap), Double(Signed(snap, snap))))

\* FLOOR((ST_MinX(g) - margin) / snap) * snap and its three companions for
\* the envelope env, with the margin and the snap as written in the text.
SnappedBox(env, margin, s) ==
    [xmin |-> SqlFloorSnap(FlSub(Double(env[1]), Double(margin)), s),
     ymin |-> SqlFloorSnap(FlSub(Double(env[2]), Double(margin)), s),
     xmax |-> SqlCeilSnap(FlAdd(Double(env[3]), Double(margin)), s),
     ymax |-> SqlCeilSnap(FlAdd(Double(env[4]), Double(margin)), s)]

\* Inputs: envelopes (the second is the spec's example, the third lies on
\* the 30 m grid, the first has negative coordinates, the last has its
\* corners on whole and half steps of the 0.8 m grid, where the double
\* quotient of a coordinate and the snap falls short of the exact one),
\* margins 0, 0.05 m and 5000 m, snaps 0.35 (written 0.3: its double is
\* below 0.35), 0.5, 0.75 (a tie, written 0.8), 30 and 50 m.
Envelopes ==
    {<<-2002468, -4009135, -1000001, -2000007>>,
     <<2002468, 4009134, 6015782, 8000246>>,
     <<2100000, 4200000, 6000000, 8400000>>,
     <<48, -3992, 72, -3984>>}
Margins == {0, 1, 100000}
Snaps == {7, 10, 15, 600, 1000}

\* The boxes of the inputs above, computed once.
SnappedBoxes ==
    {<<<<env, margin, FormatSnap(snap)>>,
       SnappedBox(env, margin, FormatSnap(snap))>> :
         env \in Envelopes, margin \in Margins, snap \in Snaps}
BoxOf(env, margin, s) ==
    IF \E known \in SnappedBoxes : known[1] = <<env, margin, s>>
    THEN (CHOOSE known \in SnappedBoxes : known[1] = <<env, margin, s>>)[2]
    ELSE SnappedBox(env, margin, s)

\* The update without its WHERE epsg != 0.
SaveBoxesEveryEpsg(table, margin, snap) ==
    LET s == FormatSnap(snap)
    IN  [i \in DOMAIN table |->
            LET box == BoxOf(table[i].env, margin, s)
            IN  [table[i] EXCEPT !.xmin = box.xmin, !.ymin = box.ymin,
                                 !.xmax = box.xmax, !.ymax = box.ymax]]

save_utm_bounding_boxes(table, margin, snap) ==
    LET s == FormatSnap(snap)
        \* WITH transformed ... WHERE epsg != 0
        transformed == {i \in DOMAIN table : table[i].epsg # 0}
        bboxes(i) == BoxOf(table[i].env, margin, s)
    IN  [i \in DOMAIN table |->
            \* WHERE burst_id_map.OGC_FID = bboxes.OGC_FID
            IF \E j \in transformed : table[j].OGC_FID = table[i].OGC_FID
            THEN LET j == CHOOSE j \in transformed :
                              table[j].OGC_FID = table[i].OGC_FID
                     box == bboxes(j)
                 IN  [table[i] EXCEPT !.xmin = box.xmin, !.ymin = box.ymin,
                                      !.xmax = box.xmax, !.ymax = box.ymax]
            ELSE table[i]]

BurstEpsgs == {0, 3031, 32631}

BurstRow(fid, e, env) ==
    [OGC_FID |-> fid, epsg |-> e, env |-> env,
     xmin |-> NULL, ymin |-> NULL, xmax |-> NULL, ymax |-> NULL]

\* A row whose box columns hold the values of an earlier run.
OldBox ==
    [xmin |-> <<-40, 0>>, ymin |-> <<-20, 0>>, xmax |-> <<20, 0>>,
     ymax |-> <<40, 0>>]
BurstRowWithBox(fid, e, env, old) ==
    IF ~old THEN BurstRow(fid, e, env)
    ELSE [BurstRow(fid, e, env) EXCEPT !.xmin = OldBox.xmin,
                                       !.ymin = OldBox.ymin,
                                       !.xmax = OldBox.xmax,
                                       !.ymax = OldBox.ymax]

BurstTables ==
    UNION {{[i \in 1..n |-> BurstRowWithBox(i, es[i], envs[i], boxes[i])] :
               es \in [1..n -> BurstEpsgs], envs \in [1..n -> Envelopes],
               boxes \in [1..n -> BOOLEAN]} :
           n \in 1..MaxBursts}

InitBBox ==
    /\ call = [op |-> "none"]
    /\ ret = Pending
    /\ burst_id_map \in BurstTables
    /\ n_bursts = Unbound
    /\ fs = NoFiles
    /\ effects = {}
    /\ BuildIdle

SaveUtmBoundingBoxes ==
    \E margin \in Margins, snap \in Snaps :
        /\ call' = [op |-> "save_utm_bounding_boxes",
                    margin |-> margin, snap |-> snap]
        /\ burst_id_map' = save_utm_bounding_boxes(burst_id_map, margin, snap)
        /\ ret' = Ok(<<>>)
        /\ UNCHANGED <<n_bursts, fs, effects>>
        /\ UNCHANGED buildVars

NextBBox == SaveUtmBoundingBoxes

SpecBBox == InitBBox /\ [][NextBBox]_vars

\* C5: after save_utm_bounding_boxes(margin, snap) with margin > 0 and
\* snap > 0, every burst with epsg != 0 has xmin = floor((minX - margin) /
\* snap) * snap, ymin likewise, xmax = ceil((maxX + margin) / snap) * snap,
\* ymax likewise; each value is a multiple of snap and the box strictly
\* contains the unsnapped envelope.
C5_SnappedBox ==
    (call.op = "save_utm_bounding_boxes" /\ call.margin > 0 /\ call.snap > 0) =>
        \A i \in DOMAIN burst_id_map :
            LET r == burst_id_map[i]
                m == call.margin
                sn == call.snap
            IN  r.epsg # 0 =>
                    /\ r.xmin = <<((r.env[1] - m) \div sn) * sn, 0>>
                    /\ r.ymin = <<((r.env[2] - m) \div sn) * sn, 0>>
                    /\ r.xmax = <<(-((-(r.env[3] + m)) \div sn)) * sn, 0>>
                    /\ r.ymax = <<(-((-(r.env[4] + m)) \div sn)) * sn, 0>>
                    /\ \A v \in {r.xmin, r.ymin, r.xmax, r.ymax} :
                           v[1] % sn = 0
                    /\ r.xmin[1] < r.env[1] /\ r.ymin[1] < r.env[2]
                    /\ r.xmax[1] > r.env[3] /\ r.ymax[1] > r.env[4]


\* C19: a run of save_utm_bounding_boxes leaves the box of every row with
\* epsg 0 as it was, changes no column of any row but the four box
\* columns, and neither adds nor removes a row.
C19_BBoxFrameCondition ==
    [][call'.op = "save_utm_bounding_boxes" =>
          /\ DOMAIN burst_id_map' = DOMAIN burst_id_map
          /\ \A i \in DOMAIN burst_id_map :
                 LET r == burst_id_map[i]
                     w == burst_id_map'[i]
                 IN  /\ w.OGC_FID = r.OGC_FID
                     /\ w.epsg = r.epsg
                     /\ w.env = r.env
                     /\ r.epsg = 0 =>
                            <<w.xmin, w.ymin, w.xmax, w.ymax>>
                                = <<r.xmin, r.ymin, r.xmax, r.ymax>>]_vars

\* After a run, a row with epsg 0 still holds the box of an earlier run
\* next to a row whose box the run computed.
C19_Witness ==
    /\ call.op = "save_utm_bounding_boxes"
    /\ \E i, j \in DOMAIN burst_id_map :
           /\ burst_id_map[i].epsg = 0
           /\ burst_id_map[i].xmin = OldBox.xmin
           /\ burst_id_map[i].ymax = OldBox.ymax
           /\ burst_id_map[j].epsg # 0
           /\ burst_id_map[j].xmin
                  = SnappedBox(burst_id_map[j].env, call.margin,
                               FormatSnap(call.snap)).xmin
           /\ burst_id_map[j].xmin # OldBox.xmin

(***************************************************************************)
(* Legacy builder, fixed-window frames (make_frame_db.py).                 *)
(*                                                                         *)
(* The burst table is the sequence of its tracks in ascending order, each  *)
(* with its distinct burst ids in catalog order.  A slice is the record of *)
(* its start and stop.                                                     *)
(***************************************************************************)
CeilDiv(a, b) == -((-a) \div b)
Min(a, b) == IF a < b THEN a ELSE b
Max(a, b) == IF a > b THEN a ELSE b

\* arr[start:stop] for 0 <= start and 0 <= stop.
ArraySlice(arr, sl) == SubSeq(arr, sl.start + 1, Min(sl.stop, Len(arr)))

\* The slice length is the module-level n_bursts, not the parameter; the
\* name is looked up when the first slice is built.
_make_frame_slices(num_bursts, n_bursts_per_frame, overlap) ==
    LET N == CeilDiv(num_bursts, n_bursts_per_frame - overlap)
        starts == [k \in 1..N |-> (k - 1) * (n_bursts_per_frame - overlap)]
    IN  IF N > 0 /\ n_bursts = Unbound THEN Raise("NameError")
        ELSE Ok([k \in 1..N |->
                    [start |-> starts[k], stop |-> starts[k] + n_bursts[1]]])

\* Lines 66-68: the rows of frames 1..k of one track.
RECURSIVE FrameRows(_, _, _, _)
FrameRows(track, current_burst_ids, slices, k) ==
    IF k = 0 THEN <<>>
    ELSE LET ids == ArraySlice(current_burst_ids, slices[k])
         IN  FrameRows(track, current_burst_ids, slices, k - 1)
             \o [j \in 1..Len(ids) |->
                    [relative_orbit_number |-> track,
                     frame_number |-> k,
                     burst_id |-> ids[j]]]

\* Lines 58-68: the rows of the first t tracks.
RECURSIVE TrackRows(_, _, _, _)
TrackRows(df_burst, n_bursts_per_frame, overlap, t) ==
    IF t = 0 THEN Ok(<<>>)
    ELSE LET before == TrackRows(df_burst, n_bursts_per_frame, overlap, t - 1)
             count == Len(df_burst[t].burst_ids)
             slices == _make_frame_slices(count, n_bursts_per_frame, overlap)
         IN  IF before.err # "none" THEN before
             ELSE IF slices.err # "none" THEN slices
             ELSE Ok(before.val
                     \o FrameRows(df_burst[t].track, df_burst[t].burst_ids,
                                  slices.val, Len(slices.val)))

define_frames_to_burst(df_burst, n_bursts_per_frame, overlap) ==
    TrackRows(df_burst, n_bursts_per_frame, overlap, Len(df_burst))

\* Inputs: one track, or two tracks of which the second has 1 or 3 bursts.
Track(t, len) == [track |-> t, burst_ids |-> [j \in 1..len |-> 100 * t + j]]
BurstTracks ==
    {<<Track(1, a)>> : a \in 1..MaxTrackLen}
    \cup {<<Track(1, a), Track(2, b)>> : a \in 1..MaxTrackLen, b \in {1, 3}}
FrameSizes ==
    {<<n, o>> \in (1..MaxPerFrame) \X (0..MaxPerFrame) : o < n}

\* The decimal text of a non-negative integer (str, astype(str) and an
\* f-string field), a string being the sequence of its pieces.
Digits == <<"0", "1", "2", "3", "4", "5", "6", "7", "8", "9">>

RECURSIVE Str(_)
Str(n) ==
    IF n < 0 THEN <<"-">> \o Str(-n)
    ELSE IF n < 10 THEN <<Digits[n + 1]>>
    ELSE Str(n \div 10) \o <<Digits[(n % 10) + 1]>>

\* Lines 424-425: f"s1-frames-{n_bursts}frames-{overlap}overlap" + ".gpkg".
DefaultOutfile(n, o) ==
    <<"s1-frames-">> \o Str(n) \o <<"frames-">> \o Str(o)
        \o <<"overlap">> \o <<".gpkg">>

\* The module binds the name now_str nowhere.
now_str == Unbound

\* get_parser, lines 357-415: the default of --output-path at line 373 is an
\* f-string over the name now_str, so building the parser raises NameError;
\* with the name bound the parsed options would be returned, outfile being
\* None when -o is absent.
get_parser(argv) ==
    IF now_str = Unbound THEN Raise("NameError")
    ELSE Ok([n_bursts_per_frame |-> argv.n, overlap_bursts |-> argv.overlap,
             outfile |-> argv.o, land_buffer_deg |-> argv.land_buffer_deg,
             margin |-> argv.margin, snap |-> argv.snap])

\* Lines 423-425: the name outfile is bound only when args.outfile is
\* falsy.
BindOutfile(args) ==
    IF args.outfile = NoOption THEN <<DefaultOutfile(args.n_bursts_per_frame,
                                                    args.overlap_bursts)>>
    ELSE Unbound

\* The session the two functions are called from: one that imported the
\* module, n_bursts being unbound.
InSession == call.op = "none"

\* A call of _make_frame_slices from such a session.
CallMakeFrameSlices ==
    \E num \in 0..MaxTrackLen, size \in FrameSizes :
        /\ InSession
        /\ call' = [op |-> "_make_frame_slices", num_bursts |-> num,
                    n_bursts_per_frame |-> size[1], overlap |-> size[2]]
        /\ ret' = _make_frame_slices(num, size[1], size[2])
        /\ UNCHANGED <<burst_id_map, n_bursts, fs, effects>>
        /\ UNCHANGED buildVars

\* A call of define_frames_to_burst from such a session.
CallDefineFrames ==
    \E df \in BurstTracks, size \in FrameSizes :
        /\ InSession
        /\ call' = [op |-> "define_frames_to_burst", df_burst |-> df,
                    n_bursts_per_frame |-> size[1], overlap |-> size[2]]
        /\ ret' = define_frames_to_burst(df, size[1], size[2])
        /\ UNCHANGED <<burst_id_map, n_bursts, fs, effects>>
        /\ UNCHANGED buildVars

(***************************************************************************)
(* Claims about the fixed-window frames.                                   *)
(***************************************************************************)
\* C6: _make_frame_slices(num_bursts, n_bursts_per_frame, overlap) returns,
\* in every call context, ceil(num_bursts / step) slices with step =
\* n_bursts_per_frame - overlap, slice k (from 0) being
\* [k * step, k * step + n_bursts_per_frame): the length is the argument.
C6_SliceLengthIsParameter ==
    call.op = "_make_frame_slices" =>
        LET step == call.n_bursts_per_frame - call.overlap
            N == CeilDiv(call.num_bursts, step)
        IN  ret = Ok([k \in 1..N |->
                        [start |-> (k - 1) * step,
                         stop |-> (k - 1) * step + call.n_bursts_per_frame]])

\* The rows a call of define_frames_to_burst returned.
JoinRows == ret.val
\* The rows of one track.
RowsOf(t) == {i \in DOMAIN JoinRows : JoinRows[i].relative_orbit_number = t}
FrameNumbers(t) == {JoinRows[i].frame_number : i \in RowsOf(t)}
FrameIds(t, f) ==
    {JoinRows[i].burst_id :
        i \in {j \in RowsOf(t) : JoinRows[j].frame_number = f}}

\* C7: define_frames_to_burst, for every track and 0 <= overlap <
\* n_bursts_per_frame: every burst id of the track is in a row of the track,
\* and the frame numbers of the track are exactly 1..ceil(N / step).
C7_EveryBurstFramed ==
    call.op = "define_frames_to_burst" =>
        /\ ret.err = "none"
        /\ \A k \in DOMAIN call.df_burst :
            LET tr == call.df_burst[k]
                step == call.n_bursts_per_frame - call.overlap
            IN  /\ \A j \in DOMAIN tr.burst_ids :
                       \E f \in FrameNumbers(tr.track) :
                           tr.burst_ids[j] \in FrameIds(tr.track, f)
                /\ FrameNumbers(tr.track)
                       = 1..CeilDiv(Len(tr.burst_ids), step)

\* C8: define_frames_to_burst gives every track of N bursts its frames
\* 1..ceil(N / step), and any two consecutive frames of a track share
\* exactly `overlap` burst ids, the truncated final frame included.
C8_ShareExactlyOverlap ==
    call.op = "define_frames_to_burst" =>
        /\ ret.err = "none"
        /\ \A k \in DOMAIN call.df_burst :
               LET t == call.df_burst[k].track
                   step == call.n_bursts_per_frame - call.overlap
                   N == Len(call.df_burst[k].burst_ids)
               IN  \A f \in 1..(CeilDiv(N, step) - 1) :
                       Cardinality(FrameIds(t, f) \cap FrameIds(t, f + 1))
                           = call.overlap

(***************************************************************************)
(* Claim about the entry point of the legacy builder.                      *)
(***************************************************************************)
\* C27: in a run of the legacy entry point the output path is the value of
\* -o/--outfile when the option is given and
\* s1-frames-{n}frames-{overlap}overlap.gpkg otherwise; the name is bound
\* before the first step that writes to it, and the run gets past the
\* parsing of its options to the loading of the burst data.
C27_OutfileBoundBeforeWrite ==
    call.op = "main" =>
        /\ call.reached # "get_parser"
        /\ call.outfile_name
               = <<IF call.outfile # NoOption THEN call.outfile
                   ELSE DefaultOutfile(call.n_bursts_per_frame, call.overlap)>>

(***************************************************************************)
(* make_jpl_burst_id, in both builders.  A string is the sequence of its   *)
(* characters.                                                             *)
(***************************************************************************)
\* str.zfill(width) of a string without sign.
zfill(str, width) ==
    IF Len(str) >= width THEN str
    ELSE [i \in 1..(width - Len(str)) |-> "0"] \o str

\* str.lower() on the characters of a subswath name.
lower(str) ==
    [i \in DOMAIN str |->
        IF str[i] = "I" THEN "i" ELSE IF str[i] = "W" THEN "w" ELSE str[i]]

JplIdUnpadded(df) ==
    [i \in DOMAIN df |->
        <<"t">> \o Str(df[i].relative_orbit_number)
        \o <<"_">> \o Str(df[i].burst_id)
        \o <<"_">> \o lower(df[i].subswath_name)]

\* build_frame_db.py
make_jpl_burst_id(df) ==
    [i \in DOMAIN df |->
        <<"t">> \o zfill(Str(df[i].relative_orbit_number), 3)
        \o <<"_">> \o zfill(Str(df[i].burst_id), 6)
        \o <<"_">> \o lower(df[i].subswath_name)]

\* make_frame_db.py
legacy_make_jpl_burst_id(df) ==
    [i \in DOMAIN df |->
        <<"t">> \o zfill(Str(df[i].relative_orbit_number), 3)
        \o <<"_">> \o zfill(Str(df[i].burst_id), 6)
        \o <<"_">> \o lower(df[i].subswath_name)]

\* Inputs: one-row tables over the boundary values, longer tables over
\* values whose digits run into each other.
Subswaths == {<<"I", "W", "1">>, <<"I", "W", "2">>, <<"I", "W", "3">>}
BurstRecord(o, b, sw) ==
    [relative_orbit_number |-> o, burst_id |-> b, subswath_name |-> sw]
BoundaryRecords ==
    {BurstRecord(o, b, sw) : o \in {0, 5, 175, 999},
                             b \in {0, 42, 375887, 999999}, sw \in Subswaths}
CloseRecords ==
    {BurstRecord(o, b, sw) : o \in {1, 11}, b \in {1, 11},
                             sw \in {<<"I", "W", "1">>, <<"I", "W", "2">>}}
JplTables ==
    {<<r>> : r \in BoundaryRecords}
    \cup UNION {[1..n -> CloseRecords] : n \in 2..MaxRows}

InitJpl ==
    /\ call \in {[op |-> o, df |-> df] :
                    o \in {"make_jpl_burst_id", "legacy_make_jpl_burst_id"},
                    df \in JplTables}
    /\ ret = Pending
    /\ burst_id_map = <<>>
    /\ n_bursts = Unbound
    /\ fs = NoFiles
    /\ effects = {}
    /\ BuildIdle

MakeJplBurstId ==
    /\ call.op = "make_jpl_burst_id"
    /\ ret = Pending
    /\ ret' = Ok(make_jpl_burst_id(call.df))
    /\ UNCHANGED <<call, burst_id_map, n_bursts, fs, effects>>
    /\ UNCHANGED buildVars

LegacyMakeJplBurstId ==
    /\ call.op = "legacy_make_jpl_burst_id"
    /\ ret = Pending
    /\ ret' = Ok(legacy_make_jpl_burst_id(call.df))
    /\ UNCHANGED <<call, burst_id_map, n_bursts, fs, effects>>
    /\ UNCHANGED buildVars

NextJpl == MakeJplBurstId \/ LegacyMakeJplBurstId

SpecJpl == InitJpl /\ [][NextJpl]_vars

\* The number a string of decimal digits writes.
DigitValue(c) == CHOOSE d \in 0..9 : Digits[d + 1] = c
RECURSIVE Decimal(_)
Decimal(str) ==
    IF str = <<>> THEN 0
    ELSE 10 * Decimal(SubSeq(str, 1, Len(str) - 1)) + DigitValue(str[Len(str)])

AllDigits(str) == \A i \in DOMAIN str : \E d \in 1..10 : Digits[d] = str[i]

JplReturned ==
    /\ call.op \in {"make_jpl_burst_id", "legacy_make_jpl_burst_id"}
    /\ ret.err = "none"

\* C9: for 0 <= relative_orbit_number <= 999, 0 <= burst_id <= 999999 and
\* subswath IW1..IW3 the id is 't', the orbit number in 3 digits, '_', the
\* burst id in 6 digits, '_' and the subswath in lower case: 15 characters,
\* and records that differ get ids that differ.
C9_JplId ==
    JplReturned =>
        /\ \A i \in DOMAIN call.df :
            LET r == call.df[i]
                id == ret.val[i]
            IN  /\ Len(id) = 15
                /\ id[1] = "t" /\ id[5] = "_" /\ id[12] = "_"
                /\ AllDigits(SubSeq(id, 2, 4))
                /\ Decimal(SubSeq(id, 2, 4)) = r.relative_orbit_number
                /\ AllDigits(SubSeq(id, 6, 11))
                /\ Decimal(SubSeq(id, 6, 11)) = r.burst_id
                /\ id[13] = "i" /\ id[14] = "w"
                /\ id[15] = r.subswath_name[3]
        /\ \A i, j \in DOMAIN call.df :
            call.df[i] # call.df[j] => ret.val[i] # ret.val[j]

\* A two-row table of small numbers whose digits would run into each other
\* unpadded gives two padded, different ids.
C9_Witness ==
    /\ JplReturned
    /\ call.op = "legacy_make_jpl_burst_id"
    /\ Len(call.df) = 2
    /\ call.df[1] = BurstRecord(1, 11, <<"I", "W", "1">>)
    /\ call.df[2] = BurstRecord(11, 1, <<"I", "W", "1">>)
    /\ ret.val[1] = <<"t", "0", "0", "1", "_", "0", "0", "0", "0", "1", "1",
                      "_", "i", "w", "1">>
    /\ ret.val[2] # ret.val[1]

(***************************************************************************)
(* get_land_df (_land_usgs.py): the cache of the buffered land polygon.    *)
(*                                                                         *)
(* An output name is its stem, whether it holds the {d} placeholder, and   *)
(* its suffix; a path is the tuple of its pieces; the content of a file is *)
(* the geometry it holds, the land buffered by d or something older.       *)
(***************************************************************************)
\* outname.format(d=buffer_deg)
Format(outname, d) ==
    <<outname.stem, IF outname.placeholder THEN d ELSE "", outname.suffix>>
\* str(outname) + ".zip"
ZipOf(path) == Append(path, ".zip")
Exists(path) == fs[path] # <<>>
\* gpd.read_file(path), of a file or of the archive that holds it
ReadFile(path) == fs[path][1]

BufferedLand(d) == <<"usgs_land", d>>
StaleLand == <<"stale", "">>

LandDfNoZipCheck(buffer_deg, outname, driver, do_zip, net_ok) ==
    LET path == Format(outname, buffer_deg)
        df_land == BufferedLand(buffer_deg)
    IN  IF Exists(path)
        THEN [ret |-> Ok(ReadFile(path)), fs |-> fs, effects |-> {"read_file"}]
        ELSE IF ~net_ok
        THEN [ret |-> Raise("ConnectionError"), fs |-> fs,
              effects |-> {"get_usgs_land"}]
        ELSE [ret |-> Ok(df_land),
              fs |-> IF do_zip /\ outname.suffix = ".geojson"
                     THEN [fs EXCEPT ![ZipOf(path)] = <<df_land>>,
                                     ![path] = <<>>]
                     ELSE [fs EXCEPT ![path] = <<df_land>>],
              effects |-> {"get_usgs_land", "buffer", "dissolve", "to_file"}]

\* net_ok: whether get_usgs_land, if called, gets the archive.
get_land_df(buffer_deg, outname, driver, do_zip, net_ok) ==
    LET path == Format(outname, buffer_deg)
        df_land == BufferedLand(buffer_deg)
    IN  IF Exists(path)
        THEN [ret |-> Ok(ReadFile(path)), fs |-> fs, effects |-> {"read_file"}]
        ELSE IF Exists(ZipOf(path))
        THEN [ret |-> Ok(ReadFile(ZipOf(path))), fs |-> fs,
              effects |-> {"read_file"}]
        ELSE IF ~net_ok
        THEN [ret |-> Raise("ConnectionError"), fs |-> fs,
              effects |-> {"get_usgs_land"}]
        ELSE IF do_zip /\ outname.suffix = ".geojson"
        THEN [ret |-> Ok(df_land),
              \* to_file, zf.write, unlink
              fs |-> [fs EXCEPT ![ZipOf(path)] = <<df_land>>, ![path] = <<>>],
              effects |-> {"get_usgs_land", "buffer", "dissolve", "to_file",
                           "zip", "unlink"}]
        ELSE [ret |-> Ok(df_land),
              fs |-> [fs EXCEPT ![path] = <<df_land>>],
              effects |-> {"get_usgs_land", "buffer", "dissolve", "to_file"}]

\* Inputs: the default name and a name without placeholder that is no
\* GeoJSON, two buffers, zipping on and off.
DefaultOutname ==
    [stem |-> "usgs_land_", placeholder |-> TRUE, suffix |-> ".geojson"]
GpkgOutname == [stem |-> "land", placeholder |-> FALSE, suffix |-> ".gpkg"]
Buffers == {"0.2", "0.3"}
LandArgs ==
    {[buffer_deg |-> d, outname |-> DefaultOutname, driver |-> "GeoJSON",
      do_zip |-> z] : d \in Buffers, z \in BOOLEAN}
    \cup
    {[buffer_deg |-> d, outname |-> GpkgOutname, driver |-> "GPKG",
      do_zip |-> z] : d \in Buffers, z \in BOOLEAN}
LandPaths ==
    UNION {{Format(a.outname, a.buffer_deg),
            ZipOf(Format(a.outname, a.buffer_deg))} : a \in LandArgs}

\* Any file-system state: each path absent or holding an older file.
InitLand ==
    /\ call = [op |-> "none"]
    /\ ret = Pending
    /\ burst_id_map = <<>>
    /\ n_bursts = Unbound
    /\ fs \in [LandPaths -> {<<>>, <<StaleLand>>}]
    /\ effects = {}
    /\ BuildIdle

\* A call of get_land_df; `again` records that the call before it was a
\* successful call with the same arguments.
GetLandDf ==
    \E a \in LandArgs, net_ok \in BOOLEAN :
        LET r == get_land_df(a.buffer_deg, a.outname, a.driver, a.do_zip,
                             net_ok)
        IN  /\ call' = [op |-> "get_land_df", args |-> a,
                        again |-> /\ call.op = "get_land_df"
                                  /\ ret.err = "none"
                                  /\ call.args = a]
            /\ ret' = r.ret
            /\ fs' = r.fs
            /\ effects' = r.effects
            /\ UNCHANGED <<burst_id_map, n_bursts>>
            /\ UNCHANGED buildVars

NextLand == GetLandDf

SpecLand == InitLand /\ [][NextLand]_vars

\* The file a call with arguments a finds: the plain one before the zip.
CacheOf(a) ==
    LET path == Format(a.outname, a.buffer_deg)
    IN  IF Exists(path) THEN path ELSE ZipOf(path)

\* C10: a call of get_land_df that follows a successful call with the same
\* arguments does not call get_usgs_land (nor buffer, nor dissolve, nor
\* write) and returns what the cached file holds, the plain file or, when
\* only the zip is left, the zip.
C10_SecondCallCached ==
    (call.op = "get_land_df" /\ call.again) =>
        /\ effects = {"read_file"}
        /\ ret.err = "none"
        /\ Exists(CacheOf(call.args))
        /\ ret.val = ReadFile(CacheOf(call.args))

\* The second of two calls found only the zip the first call made.
C10_Witness ==
    /\ call.op = "get_land_df" /\ call.again
    /\ call.args.do_zip
    /\ ~Exists(Format(call.args.outname, call.args.buffer_deg))
    /\ Exists(ZipOf(Format(call.args.outname, call.args.buffer_deg)))
    /\ ret.val = BufferedLand(call.args.buffer_deg)
    /\ effects = {"read_file"}

(***************************************************************************)
(* get_esa_burst_db (make_frame_db.py): the download of the ESA database   *)
(* in a temporary directory, step by step.                                 *)
(***************************************************************************)
\* The statements of the try block, in order.
EsaSteps == <<"chdir", "wget", "ZipFile", "extract", "move", "rmtree">>

\* What a failing statement raises.
EsaError(step) ==
    CASE step = "wget" -> "CalledProcessError"
      [] step = "ZipFile" -> "BadZipFile"
      [] step = "extract" -> "KeyError"
      [] OTHER -> "OSError"

EsaIndex(step) == CHOOSE k \in DOMAIN EsaSteps : EsaSteps[k] = step

\* A try block without its finally clause: a failure leaves at once.
EsaNextNoFinally(step, ok) ==
    IF ~ok THEN "exit"
    ELSE IF EsaIndex(step) < Len(EsaSteps) THEN EsaSteps[EsaIndex(step) + 1]
    ELSE "finally"

\* try ... finally: the statement after `step`, or the finally clause when
\* the step raised or was the last.
EsaNext(step, ok) ==
    IF ok /\ EsaIndex(step) < Len(EsaSteps)
    THEN EsaSteps[EsaIndex(step) + 1]
    ELSE "finally"

\* os.path.abspath(output_path) in directory dir
abspath(dir, path) == IF path.absolute THEN path.name ELSE <<dir, path.name>>

Dirs == {"/home", "/data", "/"}
OutputPaths ==
    {[absolute |-> FALSE, name |-> "esa_burst_map.sqlite3"],
     [absolute |-> TRUE, name |-> <<"/srv", "esa.sqlite3">>]}
EsaFaults == {"none"} \cup {EsaSteps[k] : k \in DOMAIN EsaSteps}
TmpDir == "/tmp/tmpdir"

InitEsa ==
    /\ call = [op |-> "none"]
    /\ ret = Pending
    /\ burst_id_map = <<>>
    /\ n_bursts = Unbound
    /\ fs = NoFiles
    /\ effects = {}
    /\ cwd \in Dirs
    /\ pc = "idle"
    /\ out = <<>>
    /\ frames = <<>>
    /\ frames_bursts = <<>>
    /\ done = <<>>
    /\ gpkg_spatial_ref_sys = {}
    /\ spatial_ref_sys = {}

\* Lines 25-33: the call, os.getcwd(), os.path.abspath and the creation of
\* the temporary directory.  fault names the statement that will fail in
\* this call; cwd0 remembers the directory the caller was in.
GetEsaBurstDb ==
    \E output_path \in OutputPaths, fault \in EsaFaults :
        /\ pc = "idle"
        /\ call' = [op |-> "get_esa_burst_db", fault |-> fault, cwd0 |-> cwd,
                    cur_dir |-> cwd,
                    output_path |-> abspath(cwd, output_path),
                    tmpdir |-> TmpDir, exc |-> "none", moved |-> <<>>]
        /\ ret' = Pending
        /\ pc' = EsaSteps[1]
        /\ UNCHANGED <<burst_id_map, n_bursts, fs, effects, cwd, out, frames,
                       frames_bursts, done>>
        /\ UNCHANGED srsVars

\* Lines 34-41: one statement of the try block.
EsaStep ==
    /\ call.op = "get_esa_burst_db"
    /\ pc \in {EsaSteps[k] : k \in DOMAIN EsaSteps}
    /\ LET ok == call.fault # pc
       IN  /\ pc' = EsaNext(pc, ok)
           /\ cwd' = IF ok /\ pc = "chdir" THEN call.tmpdir ELSE cwd
           /\ call' = [call EXCEPT
                          !.exc = IF ok THEN @ ELSE EsaError(pc),
                          !.moved = IF ok /\ pc = "move"
                                    THEN <<call.output_path>> ELSE @]
    /\ UNCHANGED <<ret, burst_id_map, n_bursts, fs, effects, out, frames,
                   frames_bursts, done>>
    /\ UNCHANGED srsVars

\* Lines 42-43: finally: os.chdir(cur_dir)
EsaFinally ==
    /\ call.op = "get_esa_burst_db"
    /\ pc = "finally"
    /\ cwd' = call.cur_dir
    /\ pc' = "exit"
    /\ UNCHANGED <<call, ret, burst_id_map, n_bursts, fs, effects, out,
                   frames, frames_bursts, done>>
    /\ UNCHANGED srsVars

\* The temporary directory is removed and the function returns None, or
\* the pending exception goes on to the caller.
EsaExit ==
    /\ call.op = "get_esa_burst_db"
    /\ pc = "exit"
    /\ ret' = IF call.exc = "none" THEN Ok(<<>>) ELSE Raise(call.exc)
    /\ pc' = "idle"
    /\ UNCHANGED <<call, burst_id_map, n_bursts, fs, effects, cwd, out,
                   frames, frames_bursts, done>>
    /\ UNCHANGED srsVars

NextEsa == GetEsaBurstDb \/ EsaStep \/ EsaFinally \/ EsaExit

SpecEsa == InitEsa /\ [][NextEsa]_vars

EsaReturned ==
    call.op = "get_esa_burst_db" /\ pc = "idle" /\ ret # Pending

\* C11: when get_esa_burst_db has returned or raised, whichever statement
\* failed, the working directory is the one the caller was in, and a
\* failure reaches the caller as the error the failing statement raised.
C11_CwdRestored ==
    EsaReturned =>
        /\ cwd = call.cwd0
        /\ ret = IF call.fault = "none" THEN Ok(<<>>)
                 ELSE Raise(EsaError(call.fault))

\* The move failed after the directory had been changed, and the caller is
\* back in its directory with the error of the move.
C11_Witness ==
    /\ EsaReturned
    /\ call.fault = "move"
    /\ cwd = call.cwd0 /\ cwd # call.tmpdir
    /\ ret = Raise("OSError")

(***************************************************************************)
(* query_historical_bursts.py: _fetch_base, fetch_granules, fetch_bursts   *)
(* and _get_query.                                                         *)
(*                                                                         *)
(* A frame id is the sequence of its characters; a granule name and a      *)
(* column expression are sequences of pieces, so that str.replace has      *)
(* something to remove; a datetime is a day and an hour, a date is a day;  *)
(* None is <<>> and a given optional value v is <<v>>.                     *)
(***************************************************************************)
MaxFrameIds == 2

None == <<>>

\* str.replace(old, ""): every occurrence of the piece goes.
replace(str, old) == SelectSeq(str, LAMBDA piece : piece # old)

\* The white space int() skips around a number: the six of ASCII (space,
\* tab, line feed, vertical tab, form feed, carriage return), NEL and the
\* no-break space of Latin-1, and the spaces beyond Latin-1, which a
\* string of this module cannot hold and which are named by their
\* escapes.  The separators \x1c-\x1f, white space to str.strip(), are
\* none to int().
Whitespace ==
    {" ", "\t", "\n", "", "\f", "\r", "", " ",
     "\\u1680", "\\u2000", "\\u2001", "\\u2002", "\\u2003",
     "\\u2004", "\\u2005", "\\u2006", "\\u2007", "\\u2008",
     "\\u2009", "\\u200a", "\\u2028", "\\u2029", "\\u202f",
     "\\u205f", "\\u3000"}

\* The string without the white space that leads and trails it.
strip(str) ==
    LET kept == {i \in DOMAIN str : str[i] \notin Whitespace}
    IN  IF kept = {} THEN <<>>
        ELSE SubSeq(str, CHOOSE i \in kept : \A j \in kept : i <= j,
                         CHOOSE i \in kept : \A j \in kept : j <= i)

\* The decimal digits of Unicode (category Nd), one row for each script
\* in the order of their values 0..9: int() reads any of them, also mixed
\* in one number.  The digits beyond Latin-1 are named by their escapes.
UnicodeDigits ==
  <<
    <<"0", "1", "2", "3", "4", "5", "6", "7", "8", "9">>,
    <<"\\u0660", "\\u0661", "\\u0662", "\\u0663", "\\u0664",
      "\\u0665", "\\u0666", "\\u0667", "\\u0668", "\\u0669">>,
    <<"\\u06f0", "\\u06f1", "\\u06f2", "\\u06f3", "\\u06f4",
      "\\u06f5", "\\u06f6", "\\u06f7", "\\u06f8", "\\u06f9">>,
    <<"\\u07c0", "\\u07c1", "\\u07c2", "\\u07c3", "\\u07c4",
      "\\u07c5", "\\u07c6", "\\u07c7", "\\u07c8", "\\u07c9">>,
    <<"\\u0966", "\\u0967", "\\u0968", "\\u0969", "\\u096a",
      "\\u096b", "\\u096c", "\\u096d", "\\u096e", "\\u096f">>,
    <<"\\u09e6", "\\u09e7", "\\u09e8", "\\u09e9", "\\u09ea",
      "\\u09eb", "\\u09ec", "\\u09ed", "\\u09ee", "\\u09ef">>,
    <<"\\u0a66", "\\u0a67", "\\u0a68", "\\u0a69", "\\u0a6a",
      "\\u0a6b", "\\u0a6c", "\\u0a6d", "\\u0a6e", "\\u0a6f">>,
    <<"\\u0ae6", "\\u0ae7", "\\u0ae8", "\\u0ae9", "\\u0aea",
      "\\u0aeb", "\\u0aec", "\\u0aed", "\\u0aee", "\\u0aef">>,
    <<"\\u0b66", "\\u0b67", "\\u0b68", "\\u0b69", "\\u0b6a",
      "\\u0b6b", "\\u0b6c", "\\u0b6d", "\\u0b6e", "\\u0b6f">>,
    <<"\\u0be6", "\\u0be7", "\\u0be8", "\\u0be9", "\\u0bea",
      "\\u0beb", "\\u0bec", "\\u0bed", "\\u0bee", "\\u0bef">>,
    <<"\\u0c66", "\\u0c67", "\\u0c68", "\\u0c69", "\\u0c6a",
      "\\u0c6b", "\\u0c6c", "\\u0c6d", "\\u0c6e", "\\u0c6f">>,
    <<"\\u0ce6", "\\u0ce7", "\\u0ce8", "\\u0ce9", "\\u0cea",
      "\\u0ceb", "\\u0cec", "\\u0ced", "\\u0cee", "\\u0cef">>,
    <<"\\u0d66", "\\u0d67", "\\u0d68", "\\u0d69", "\\u0d6a",
      "\\u0d6b", "\\u0d6c", "\\u0d6d", "\\u0d6e", "\\u0d6f">>,
    <<"\\u0de6", "\\u0de7", "\\u0de8", "\\u0de9", "\\u0dea",
      "\\u0deb", "\\u0dec", "\\u0ded", "\\u0dee", "\\u0def">>,
    <<"\\u0e50", "\\u0e51", "\\u0e52", "\\u0e53", "\\u0e54",
      "\\u0e55", "\\u0e56", "\\u0e57", "\\u0e58", "\\u0e59">>,
    <<"\\u0ed0", "\\u0ed1", "\\u0ed2", "\\u0ed3", "\\u0ed4",
      "\\u0ed5", "\\u0ed6", "\\u0ed7", "\\u0ed8", "\\u0ed9">>,
    <<"\\u0f20", "\\u0f21", "\\u0f22", "\\u0f23", "\\u0f24",
      "\\u0f25", "\\u0f26", "\\u0f27", "\\u0f28", "\\u0f29">>,
    <<"\\u1040", "\\u1041", "\\u1042", "\\u1043", "\\u1044",
      "\\u1045", "\\u1046", "\\u1047", "\\u1048", "\\u1049">>,
    <<"\\u1090", "\\u1091", "\\u1092", "\\u1093", "\\u1094",
      "\\u1095", "\\u1096", "\\u1097", "\\u1098", "\\u1099">>,
    <<"\\u17e0", "\\u17e1", "\\u17e2", "\\u17e3", "\\u17e4",
      "\\u17e5", "\\u17e6", "\\u17e7", "\\u17e8", "\\u17e9">>,
    <<"\\u1810", "\\u1811", "\\u1812", "\\u1813", "\\u1814",
      "\\u1815", "\\u1816", "\\u1817", "\\u1818", "\\u1819">>,
    <<"\\u1946", "\\u1947", "\\u1948", "\\u1949", "\\u194a",
      "\\u194b", "\\u194c", "\\u194d", "\\u194e", "\\u194f">>,
    <<"\\u19d0", "\\u19d1", "\\u19d2", "\\u19d3", "\\u19d4",
      "\\u19d5", "\\u19d6", "\\u19d7", "\\u19d8", "\\u19d9">>,
    <<"\\u1a80", "\\u1a81", "\\u1a82", "\\u1a83", "\\u1a84",
      "\\u1a85", "\\u1a86", "\\u1a87", "\\u1a88", "\\u1a89">>,
    <<"\\u1a90", "\\u1a91", "\\u1a92", "\\u1a93", "\\u1a94",
      "\\u1a95", "\\u1a96", "\\u1a97", "\\u1a98", "\\u1a99">>,
    <<"\\u1b50", "\\u1b51", "\\u1b52", "\\u1b53", "\\u1b54",
      "\\u1b55", "\\u1b56", "\\u1b57", "\\u1b58", "\\u1b59">>,
    <<"\\u1bb0", "\\u1bb1", "\\u1bb2", "\\u1bb3", "\\u1bb4",
      "\\u1bb5", "\\u1bb6", "\\u1bb7", "\\u1bb8", "\\u1bb9">>,
    <<"\\u1c40", "\\u1c41", "\\u1c42", "\\u1c43", "\\u1c44",
      "\\u1c45", "\\u1c46", "\\u1c47", "\\u1c48", "\\u1c49">>,
    <<"\\u1c50", "\\u1c51", "\\u1c52", "\\u1c53", "\\u1c54",
      "\\u1c55", "\\u1c56", "\\u1c57", "\\u1c58", "\\u1c59">>,
    <<"\\ua620", "\\ua621", "\\ua622", "\\ua623", "\\ua624",
      "\\ua625", "\\ua626", "\\ua627", "\\ua628", "\\ua629">>,
    <<"\\ua8d0", "\\ua8d1", "\\ua8d2", "\\ua8d3", "\\ua8d4",
      "\\ua8d5", "\\ua8d6", "\\ua8d7", "\\ua8d8", "\\ua8d9">>,
    <<"\\ua900", "\\ua901", "\\ua902", "\\ua903", "\\ua904",
      "\\ua905", "\\ua906", "\\ua907", "\\ua908", "\\ua909">>,
    <<"\\ua9d0", "\\ua9d1", "\\ua9d2", "\\ua9d3", "\\ua9d4",
      "\\ua9d5", "\\ua9d6", "\\ua9d7", "\\ua9d8", "\\ua9d9">>,
    <<"\\ua9f0", "\\ua9f1", "\\ua9f2", "\\ua9f3", "\\ua9f4",
      "\\ua9f5", "\\ua9f6", "\\ua9f7", "\\ua9f8", "\\ua9f9">>,
    <<"\\uaa50", "\\uaa51", "\\uaa52", "\\uaa53", "\\uaa54",
      "\\uaa55", "\\uaa56", "\\uaa57", "\\uaa58", "\\uaa59">>,
    <<"\\uabf0", "\\uabf1", "\\uabf2", "\\uabf3", "\\uabf4",
      "\\uabf5", "\\uabf6", "\\uabf7", "\\uabf8", "\\uabf9">>,
    <<"\\uff10", "\\uff11", "\\uff12", "\\uff13", "\\uff14",
      "\\uff15", "\\uff16", "\\uff17", "\\uff18", "\\uff19">>,
    <<"\\U000104a0", "\\U000104a1", "\\U000104a2", "\\U000104a3", "\\U000104a4",
      "\\U000104a5", "\\U000104a6", "\\U000104a7", "\\U000104a8", "\\U000104a9">>,
    <<"\\U00010d30", "\\U00010d31", "\\U00010d32", "\\U00010d33", "\\U00010d34",
      "\\U00010d35", "\\U00010d36", "\\U00010d37", "\\U00010d38", "\\U00010d39">>,
    <<"\\U00011066", "\\U00011067", "\\U00011068", "\\U00011069", "\\U0001106a",
      "\\U0001106b", "\\U0001106c", "\\U0001106d", "\\U0001106e", "\\U0001106f">>,
    <<"\\U000110f0", "\\U000110f1", "\\U000110f2", "\\U000110f3", "\\U000110f4",
      "\\U000110f5", "\\U000110f6", "\\U000110f7", "\\U000110f8", "\\U000110f9">>,
    <<"\\U00011136", "\\U00011137", "\\U00011138", "\\U00011139", "\\U0001113a",
      "\\U0001113b", "\\U0001113c", "\\U0001113d", "\\U0001113e", "\\U0001113f">>,
    <<"\\U000111d0", "\\U000111d1", "\\U000111d2", "\\U000111d3", "\\U000111d4",
      "\\U000111d5", "\\U000111d6", "\\U000111d7", "\\U000111d8", "\\U000111d9">>,
    <<"\\U000112f0", "\\U000112f1", "\\U000112f2", "\\U000112f3", "\\U000112f4",
      "\\U000112f5", "\\U000112f6", "\\U000112f7", "\\U000112f8", "\\U000112f9">>,
    <<"\\U00011450", "\\U00011451", "\\U00011452", "\\U00011453", "\\U00011454",
      "\\U00011455", "\\U00011456", "\\U00011457", "\\U00011458", "\\U00011459">>,
    <<"\\U000114d0", "\\U000114d1", "\\U000114d2", "\\U000114d3", "\\U000114d4",
      "\\U000114d5", "\\U000114d6", "\\U000114d7", "\\U000114d8", "\\U000114d9">>,
    <<"\\U00011650", "\\U00011651", "\\U00011652", "\\U00011653", "\\U00011654",
      "\\U00011655", "\\U00011656", "\\U00011657", "\\U00011658", "\\U00011659">>,
    <<"\\U000116c0", "\\U000116c1", "\\U000116c2", "\\U000116c3", "\\U000116c4",
      "\\U000116c5", "\\U000116c6", "\\U000116c7", "\\U000116c8", "\\U000116c9">>,
    <<"\\U00011730", "\\U00011731", "\\U00011732", "\\U00011733", "\\U00011734",
      "\\U00011735", "\\U00011736", "\\U00011737", "\\U00011738", "\\U00011739">>,
    <<"\\U000118e0", "\\U000118e1", "\\U000118e2", "\\U000118e3", "\\U000118e4",
      "\\U000118e5", "\\U000118e6", "\\U000118e7", "\\U000118e8", "\\U000118e9">>,
    <<"\\U00011950", "\\U00011951", "\\U00011952", "\\U00011953", "\\U00011954",
      "\\U00011955", "\\U00011956", "\\U00011957", "\\U00011958", "\\U00011959">>,
    <<"\\U00011c50", "\\U00011c51", "\\U00011c52", "\\U00011c53", "\\U00011c54",
      "\\U00011c55", "\\U00011c56", "\\U00011c57", "\\U00011c58", "\\U00011c59">>,
    <<"\\U00011d50", "\\U00011d51", "\\U00011d52", "\\U00011d53", "\\U00011d54",
      "\\U00011d55", "\\U00011d56", "\\U00011d57", "\\U00011d58", "\\U00011d59">>,
    <<"\\U00011da0", "\\U00011da1", "\\U00011da2", "\\U00011da3", "\\U00011da4",
      "\\U00011da5", "\\U00011da6", "\\U00011da7", "\\U00011da8", "\\U00011da9">>,
    <<"\\U00016a60", "\\U00016a61", "\\U00016a62", "\\U00016a63", "\\U00016a64",
      "\\U00016a65", "\\U00016a66", "\\U00016a67", "\\U00016a68", "\\U00016a69">>,
    <<"\\U00016ac0", "\\U00016ac1", "\\U00016ac2", "\\U00016ac3", "\\U00016ac4",
      "\\U00016ac5", "\\U00016ac6", "\\U00016ac7", "\\U00016ac8", "\\U00016ac9">>,
    <<"\\U00016b50", "\\U00016b51", "\\U00016b52", "\\U00016b53", "\\U00016b54",
      "\\U00016b55", "\\U00016b56", "\\U00016b57", "\\U00016b58", "\\U00016b59">>,
    <<"\\U0001d7ce", "\\U0001d7cf", "\\U0001d7d0", "\\U0001d7d1", "\\U0001d7d2",
      "\\U0001d7d3", "\\U0001d7d4", "\\U0001d7d5", "\\U0001d7d6", "\\U0001d7d7">>,
    <<"\\U0001d7d8", "\\U0001d7d9", "\\U0001d7da", "\\U0001d7db", "\\U0001d7dc",
      "\\U0001d7dd", "\\U0001d7de", "\\U0001d7df", "\\U0001d7e0", "\\U0001d7e1">>,
    <<"\\U0001d7e2", "\\U0001d7e3", "\\U0001d7e4", "\\U0001d7e5", "\\U0001d7e6",
      "\\U0001d7e7", "\\U0001d7e8", "\\U0001d7e9", "\\U0001d7ea", "\\U0001d7eb">>,
    <<"\\U0001d7ec", "\\U0001d7ed", "\\U0001d7ee", "\\U0001d7ef", "\\U0001d7f0",
      "\\U0001d7f1", "\\U0001d7f2", "\\U0001d7f3", "\\U0001d7f4", "\\U0001d7f5">>,
    <<"\\U0001d7f6", "\\U0001d7f7", "\\U0001d7f8", "\\U0001d7f9", "\\U0001d7fa",
      "\\U0001d7fb", "\\U0001d7fc", "\\U0001d7fd", "\\U0001d7fe", "\\U0001d7ff">>,
    <<"\\U0001e140", "\\U0001e141", "\\U0001e142", "\\U0001e143", "\\U0001e144",
      "\\U0001e145", "\\U0001e146", "\\U0001e147", "\\U0001e148", "\\U0001e149">>,
    <<"\\U0001e2f0", "\\U0001e2f1", "\\U0001e2f2", "\\U0001e2f3", "\\U0001e2f4",
      "\\U0001e2f5", "\\U0001e2f6", "\\U0001e2f7", "\\U0001e2f8", "\\U0001e2f9">>,
    <<"\\U0001e950", "\\U0001e951", "\\U0001e952", "\\U0001e953", "\\U0001e954",
      "\\U0001e955", "\\U0001e956", "\\U0001e957", "\\U0001e958", "\\U0001e959">>,
    <<"\\U0001fbf0", "\\U0001fbf1", "\\U0001fbf2", "\\U0001fbf3", "\\U0001fbf4",
      "\\U0001fbf5", "\\U0001fbf6", "\\U0001fbf7", "\\U0001fbf8", "\\U0001fbf9">>
  >>

\* The value of the decimal digit c, and whether c is one.
IsUnicodeDigit(c) ==
    \E row \in DOMAIN UnicodeDigits : \E d \in 1..10 : UnicodeDigits[row][d] = c
UnicodeDigitValue(c) ==
    CHOOSE d \in 0..9 :
        \E row \in DOMAIN UnicodeDigits : UnicodeDigits[row][d + 1] = c
RECURSIVE UnicodeDecimal(_)
UnicodeDecimal(str) ==
    IF str = <<>> THEN 0
    ELSE 10 * UnicodeDecimal(SubSeq(str, 1, Len(str) - 1))
             + UnicodeDigitValue(str[Len(str)])

\* int(frame_id): white space around the number is dropped, one sign may
\* lead, and the digits may hold single underscores between them; the
\* result is the signed value of the digits, ValueError for any other
\* string.
py_int(str) ==
    LET text == strip(str)
        signed == text # <<>> /\ text[1] \in {"+", "-"}
        body == IF signed THEN Tail(text) ELSE text
        digits == replace(body, "_")
        wellFormed ==
            /\ body # <<>>
            /\ body[1] # "_" /\ body[Len(body)] # "_"
            /\ \A i \in 1..(Len(body) - 1) :
                   ~(body[i] = "_" /\ body[i + 1] = "_")
            /\ \A i \in DOMAIN digits : IsUnicodeDigit(digits[i])
    IN  IF ~wellFormed THEN Raise("ValueError")
        ELSE IF signed /\ text[1] = "-" THEN Ok(-UnicodeDecimal(digits))
        ELSE Ok(UnicodeDecimal(digits))

\* lines 28-30: the loop over frame_ids; data is the "data" member of the
\* frame-to-burst JSON.
RECURSIVE ExtendBurstIds(_, _, _)
ExtendBurstIds(data, frame_ids, burst_ids) ==
    IF frame_ids = <<>> THEN Ok(burst_ids)
    ELSE LET n == py_int(Head(frame_ids))
         IN  IF n.err # "none" THEN n
             ELSE LET key == Str(n.val)
                      entry == IF key \in DOMAIN data THEN data[key]
                               ELSE [none |-> TRUE]
                      found == IF "burst_ids" \in DOMAIN entry
                               THEN entry.burst_ids ELSE <<>>
                  IN  ExtendBurstIds(data, Tail(frame_ids),
                                     burst_ids \o found)

SeqRange(seq) == {seq[k] : k \in DOMAIN seq}

\* list(set(burst_ids)): the orders a set can be listed in.
Orderings(S) ==
    {u \in [1..Cardinality(S) -> S] :
        \A a, b \in 1..Cardinality(S) : u[a] = u[b] => a = b}

\* datetime.date()
date(dt) == dt.day

\* The bind parameters with the two dates in the other order.
GetQueryMaxFirst(unique_burst_ids, select_columns, min_datetime, max_datetime) ==
    [select |-> select_columns,
     in_list |-> [k \in DOMAIN unique_burst_ids |-> "?"],
     conds |-> (IF min_datetime # None THEN <<">=">> ELSE <<>>)
               \o (IF max_datetime # None THEN <<"<=">> ELSE <<>>),
     args |-> unique_burst_ids
              \o (IF max_datetime # None THEN <<date(max_datetime[1])>>
                  ELSE <<>>)
              \o (IF min_datetime # None THEN <<date(min_datetime[1])>>
                  ELSE <<>>)]

\* _get_query: the statement (its column list, the placeholders of the IN
\* list, the date conditions that follow with one placeholder each) and
\* the bind parameters.
_get_query(unique_burst_ids, select_columns, min_datetime, max_datetime) ==
    [select |-> select_columns,
     in_list |-> [k \in DOMAIN unique_burst_ids |-> "?"],
     conds |-> (IF min_datetime # None THEN <<">=">> ELSE <<>>)
               \o (IF max_datetime # None THEN <<"<=">> ELSE <<>>),
     args |-> unique_burst_ids
              \o (IF min_datetime # None THEN <<date(min_datetime[1])>>
                  ELSE <<>>)
              \o (IF max_datetime # None THEN <<date(max_datetime[1])>>
                  ELSE <<>>)]

\* The rows of a sequence without the repetitions, first occurrences kept.
RECURSIVE Distinct(_)
Distinct(rows) ==
    IF rows = <<>> THEN <<>>
    ELSE LET front == Distinct(SubSeq(rows, 1, Len(rows) - 1))
             last == rows[Len(rows)]
         IN  IF last \in SeqRange(front) THEN front ELSE Append(front, last)

\* cursor.execute(query, args).fetchall() on the bursts table db: the
\* parameters are bound to the placeholders by position.
Execute(db, query) ==
    LET n == Len(query.in_list)
        args == query.args
        ids == {args[k] : k \in 1..n}
        Holds(row) ==
            /\ row.burst_id_jpl \in ids
            /\ \A c \in DOMAIN query.conds :
                   IF query.conds[c] = ">="
                   THEN row.sensing_time >= args[n + c]
                   ELSE row.sensing_time <= args[n + c]
        matching == SelectSeq(db, Holds)
        Name(col) == col[Len(col)]
        tuples == [r \in DOMAIN matching |->
                      [c \in DOMAIN query.select |->
                          matching[r][Name(query.select[c])]]]
    IN  IF Len(args) # n + Len(query.conds) THEN Raise("ProgrammingError")
        ELSE IF query.select[1][1] = "DISTINCT " THEN Ok(Distinct(tuples))
        ELSE Ok(tuples)

\* fetch_granules.row_processor
StripSafe(row) == replace(row[1], ".SAFE")

\* the default row_processor of _fetch_base, lambda row: row
SameRow(row) == row

\* row_processor(row), the callable being passed by its name
CallRowProcessor(row_processor, row) ==
    IF row_processor = "StripSafe" THEN StripSafe(row) ELSE SameRow(row)

\* _fetch_base, lines 26-58: the outcomes of a call, one for each order
\* list(set(burst_ids)) can come in.  An outcome is what the call returns
\* or raises, the rows written and the statement executed.
_fetch_base(frame_ids, row_processor, select_columns, min_datetime, max_datetime, db, headers, data) ==
    LET burst_ids == ExtendBurstIds(data, frame_ids, <<>>)
        Written(unique_burst_ids) ==
            LET query == _get_query(unique_burst_ids, select_columns,
                                    min_datetime, max_datetime)
                results == Execute(db, query)
                header == IF headers
                          THEN <<[c \in DOMAIN select_columns |->
                                     replace(select_columns[c], "DISTINCT ")]>>
                          ELSE <<>>
            IN  IF results.err # "none"
                THEN [ret |-> results, out |-> <<>>, executed |-> {}]
                ELSE [ret |-> Ok(None),
                      out |-> header
                              \o [r \in DOMAIN results.val |->
                                     <<CallRowProcessor(row_processor,
                                                        results.val[r])>>],
                      executed |-> {[query |-> query,
                                     unique_burst_ids |-> unique_burst_ids,
                                     results |-> results.val]}]
    IN  IF burst_ids.err # "none"
        THEN {[ret |-> burst_ids, out |-> <<>>, executed |-> {}]}
        ELSE {Written(u) : u \in Orderings(SeqRange(burst_ids.val))}

fetch_granules(frame_ids, min_datetime, max_datetime, db, headers, data) ==
    _fetch_base(frame_ids, "StripSafe", <<<<"DISTINCT ", "granule">>>>,
                min_datetime, max_datetime, db, headers, data)

fetch_bursts(frame_ids, min_datetime, max_datetime, db, headers, with_granule, data) ==
    _fetch_base(frame_ids, "SameRow",
                <<<<"burst_id_jpl">>, <<"sensing_time">>>>
                \o (IF with_granule THEN <<<<"granule">>>> ELSE <<>>),
                min_datetime, max_datetime, db, headers, data)

\* Inputs.  The frame-to-burst mapping has frames 1, 2 and 7 and an entry
\* without burst_ids; the requested ids include one in no entry, one with
\* leading zeros, one that is no number, signed ones and an Arabic-Indic
\* two between a vertical tab and a no-break space.
FrameToBurst ==
    (Str(1) :> [burst_ids |-> <<"t001_000001_iw1", "t001_000002_iw1">>])
    @@ (Str(2) :> [burst_ids |-> <<"t001_000002_iw1", "t001_000003_iw1">>])
    @@ (Str(7) :> [burst_ids |-> <<"t001_000003_iw1">>])
    @@ (Str(3) :> [is_land |-> TRUE])
FrameIdStrings ==
    {Str(1), Str(2), Str(3), Str(9), <<"0", "0", "7">>, <<"a", "b", "c">>,
     <<"+", "7">>, <<"", "\\u0662", " ">>, <<"-", "7">>}
FrameIdLists ==
    UNION {[1..n -> FrameIdStrings] : n \in 0..MaxFrameIds}

HistoryRow(b, t, g) == [burst_id_jpl |-> b, sensing_time |-> t, granule |-> g]
\* One row per burst with distinct dates, as in the spec's example, and a
\* burst of no requested frame.
PlainHistory ==
    <<HistoryRow("t001_000001_iw1", 10, <<"S1A_A", ".SAFE">>),
      HistoryRow("t001_000002_iw1", 20, <<"S1A_B", ".SAFE">>),
      HistoryRow("t001_000002_iw1", 20, <<"S1A_B", ".SAFE">>),
      HistoryRow("t001_000009_iw1", 15, <<"S1A_C", ".SAFE">>)>>
\* Granules stored with and without the suffix, and one with the suffix
\* inside the name.
MixedHistory ==
    <<HistoryRow("t001_000001_iw1", 10, <<"S1A_A", ".SAFE">>),
      HistoryRow("t001_000001_iw1", 10, <<"S1A_A">>),
      HistoryRow("t001_000003_iw1", 30, <<"S1A", ".SAFE", "_D", ".SAFE">>)>>
Histories == {PlainHistory, MixedHistory}
Datetimes == {None, <<[day |-> 10, hour |-> 0]>>, <<[day |-> 20, hour |-> 12]>>}

QueryCalls ==
    {[op |-> "fetch_granules", frame_ids |-> f, min_datetime |-> lo,
      max_datetime |-> hi, db |-> db, headers |-> h, with_granule |-> FALSE] :
        f \in FrameIdLists, lo \in Datetimes, hi \in Datetimes,
        db \in Histories, h \in BOOLEAN}
    \cup
    {[op |-> "fetch_bursts", frame_ids |-> f, min_datetime |-> lo,
      max_datetime |-> hi, db |-> db, headers |-> h, with_granule |-> w] :
        f \in FrameIdLists, lo \in Datetimes, hi \in Datetimes,
        db \in Histories, h \in BOOLEAN, w \in BOOLEAN}

InitQuery ==
    /\ call \in QueryCalls
    /\ ret = Pending
    /\ burst_id_map = <<>>
    /\ n_bursts = Unbound
    /\ fs = NoFiles
    /\ effects = {}
    /\ BuildIdle

FetchGranules ==
    /\ call.op = "fetch_granules" /\ ret = Pending
    /\ \E o \in fetch_granules(call.frame_ids, call.min_datetime,
                               call.max_datetime, call.db, call.headers,
                               FrameToBurst) :
           /\ ret' = o.ret
           /\ out' = o.out
           /\ effects' = o.executed
    /\ UNCHANGED <<call, burst_id_map, n_bursts, fs, cwd, pc, frames,
                   frames_bursts, done>>
    /\ UNCHANGED srsVars

FetchBursts ==
    /\ call.op = "fetch_bursts" /\ ret = Pending
    /\ \E o \in fetch_bursts(call.frame_ids, call.min_datetime,
                             call.max_datetime, call.db, call.headers,
                             call.with_granule, FrameToBurst) :
           /\ ret' = o.ret
           /\ out' = o.out
           /\ effects' = o.executed
    /\ UNCHANGED <<call, burst_id_map, n_bursts, fs, cwd, pc, frames,
                   frames_bursts, done>>
    /\ UNCHANGED srsVars

NextQuery == FetchGranules \/ FetchBursts

SpecQuery == InitQuery /\ [][NextQuery]_vars

QueryReturned == call.op \in {"fetch_granules", "fetch_bursts"} /\ ret # Pending

\* The requested frame ids that are keys of the mapping as they stand.
PresentFrameIds ==
    {f \in SeqRange(call.frame_ids) :
        f \in DOMAIN FrameToBurst /\ "burst_ids" \in DOMAIN FrameToBurst[f]}

\* C12: whatever strings are requested, the resolution raises nothing;
\* the resolved burst ids have no repetition and are, as a set, the union
\* of the burst_ids of the requested frame ids that are keys of the
\* mapping.
C12_UnmatchedSkipped ==
    QueryReturned =>
        /\ ret.err = "none"
        /\ \A e \in effects :
               /\ Cardinality(SeqRange(e.unique_burst_ids))
                      = Len(e.unique_burst_ids)
               /\ SeqRange(e.unique_burst_ids)
                      = UNION {SeqRange(FrameToBurst[f].burst_ids) :
                                  f \in PresentFrameIds}

\* The history rows a call asks for: burst id among the resolved ones,
\* sensing_time within the given dates, both ends included.
Wanted(e) ==
    SelectSeq(call.db,
              LAMBDA row :
                  /\ row.burst_id_jpl \in SeqRange(e.unique_burst_ids)
                  /\ call.min_datetime # None =>
                         row.sensing_time >= call.min_datetime[1].day
                  /\ call.max_datetime # None =>
                         row.sensing_time <= call.max_datetime[1].day)

Projected(e, row) ==
    [c \in DOMAIN e.query.select |->
        row[e.query.select[c][Len(e.query.select[c])]]]

\* C13: the statement has as many placeholders as bind parameters, the
\* parameters are the burst ids, then the min date, then the max date,
\* the >= condition is there iff min_datetime is given and the <= one iff
\* max_datetime is, and the rows fetched are those of the wanted history
\* rows.
C13_QueryMatchesArgs ==
    QueryReturned =>
        \A e \in effects :
            LET q == e.query
                n == Len(q.in_list)
                lo == call.min_datetime
                hi == call.max_datetime
            IN  /\ n + Len(q.conds) = Len(q.args)
                /\ SubSeq(q.args, 1, n) = e.unique_burst_ids
                /\ (\E c \in DOMAIN q.conds : q.conds[c] = ">=") <=> lo # None
                /\ (\E c \in DOMAIN q.conds : q.conds[c] = "<=") <=> hi # None
                /\ lo # None =>
                       q.conds[1] = ">=" /\ q.args[n + 1] = lo[1].day
                /\ hi # None =>
                       /\ q.conds[Len(q.conds)] = "<="
                       /\ q.args[Len(q.args)] = hi[1].day
                /\ SeqRange(e.results)
                       = {Projected(e, Wanted(e)[k]) : k \in DOMAIN Wanted(e)}

\* The spec's example: frames 1 and 2, one row of each burst on different
\* days, a window whose two ends are given and hold only the first day.
C13_Witness ==
    /\ QueryReturned
    /\ call.op = "fetch_bursts" /\ ~call.with_granule
    /\ call.frame_ids = <<Str(1), Str(2)>>
    /\ call.db = PlainHistory
    /\ call.min_datetime # None /\ call.max_datetime # None
    /\ \E e \in effects :
           /\ Len(e.query.args) = 5
           /\ e.results = <<<<"t001_000001_iw1", 10>>>>

\* The data rows of the written CSV: all rows but the header.
DataRows == IF call.headers THEN Tail(out) ELSE out

\* A name with its trailing ".SAFE" taken off, the rest as it was.
WithoutSafeSuffix(name) ==
    IF name # <<>> /\ name[Len(name)] = ".SAFE"
    THEN SubSeq(name, 1, Len(name) - 1) ELSE name

\* C14: fetch_granules writes, for each fetched granule, the stored name
\* without its trailing ".SAFE" and otherwise unchanged, and writes no
\* value twice.
C14_GranulesStrippedDistinct ==
    (QueryReturned /\ call.op = "fetch_granules" /\ ret.err = "none") =>
        /\ \A e \in effects :
               /\ Len(DataRows) = Len(e.results)
               /\ \A k \in DOMAIN DataRows :
                      DataRows[k] = <<WithoutSafeSuffix(e.results[k][1])>>
        /\ Cardinality(SeqRange(DataRows)) = Len(DataRows)

\* C15: each data row fetch_bursts writes has one field per selected
\* column, as many as the header row.
C15_OneFieldPerColumn ==
    (QueryReturned /\ call.op = "fetch_bursts" /\ ret.err = "none") =>
        \A k \in DOMAIN DataRows :
            Len(DataRows[k]) = IF call.with_granule THEN 3 ELSE 2

(***************************************************************************)
(* make_frame_table and update_burst_epsg (build_frame_db.py): the frames  *)
(* table made from the join table, and the frames' codes carried to the    *)
(* bursts.                                                                 *)
(*                                                                         *)
(* A join row is (frame_fid, burst_ogc_fid, is_land); a frames row is      *)
(* (fid, epsg, is_land, geom), geom being the set of the bursts whose      *)
(* geometries were united.                                                 *)
(***************************************************************************)
MaxJoinRows == 3

\* The elements of a set of integers in increasing order.
RECURSIVE SortSet(_)
SortSet(S) ==
    IF S = {} THEN <<>>
    ELSE LET least == CHOOSE x \in S : \A y \in S : x <= y
         IN  <<least>> \o SortSet(S \ {least})

\* burst_id_map b JOIN frames_bursts fb ON b.ogc_fid = fb.burst_ogc_fid:
\* the positions of the join rows that have their burst.
Joined(table, fb) ==
    {k \in DOMAIN fb :
        \E i \in DOMAIN table : table[i].OGC_FID = fb[k].burst_ogc_fid}

\* The join rows of frame fid.
GroupOf(table, fb, fid) == {k \in Joined(table, fb) : fb[k].frame_fid = fid}

\* make_frame_table: INSERT INTO frames ... GROUP BY 1, then the is_land
\* column of frames_bursts is dropped.  fb.is_land is a bare column of an
\* aggregate query: SQLite takes it from a row of the group it does not
\* name; pick[fid] is that row.
make_frame_table(table, fb, pick) ==
    LET fids == SortSet({fb[k].frame_fid : k \in Joined(table, fb)})
    IN  [frames |->
            [n \in DOMAIN fids |->
                [fid |-> fids[n], epsg |-> NULL,
                 is_land |-> fb[pick[fids[n]]].is_land,
                 is_north_america |-> NULL,
                 geom |-> {fb[k].burst_ogc_fid :
                              k \in GroupOf(table, fb, fids[n])}]],
         frames_bursts |->
            [k \in DOMAIN fb |-> [frame_fid |-> fb[k].frame_fid,
                                  burst_ogc_fid |-> fb[k].burst_ogc_fid]]]

\* The rows SQLite may take the bare column from: one of each group.
Picks(table, fb) ==
    LET fids == {fb[k].frame_fid : k \in Joined(table, fb)}
    IN  {pick \in [fids -> DOMAIN fb] :
            \A fid \in fids : pick[fid] \in GroupOf(table, fb, fid)}

\* The frames a burst row can take its code from: the rows of
\* burst_epsgs, the three-table join, with its OGC_FID.
BurstEpsgsOf(table, fb, fr, i) ==
    {n \in DOMAIN fr :
        \E k \in DOMAIN fb : /\ fb[k].burst_ogc_fid = table[i].OGC_FID
                             /\ fb[k].frame_fid = fr[n].fid}

\* update_burst_epsg: UPDATE burst_id_map SET epsg = burst_epsgs.epsg FROM
\* burst_epsgs WHERE the OGC_FIDs agree.  When several rows of burst_epsgs
\* match a burst, SQLite uses one of them and does not say which;
\* choice[i] is the frames row used for burst row i.
update_burst_epsg(table, fb, fr, choice) ==
    [i \in DOMAIN table |->
        IF BurstEpsgsOf(table, fb, fr, i) = {} THEN table[i]
        ELSE [table[i] EXCEPT !.epsg = fr[choice[i]].epsg]]

Choices(table, fb, fr) ==
    {choice \in [DOMAIN table -> (DOMAIN fr) \cup {0}] :
        \A i \in DOMAIN table :
            IF BurstEpsgsOf(table, fb, fr, i) = {} THEN choice[i] = 0
            ELSE choice[i] \in BurstEpsgsOf(table, fb, fr, i)}

\* Inputs: tables of bursts with epsg 0, a land flag for each burst, and
\* the join tables of up to MaxJoinRows memberships in frame order.
Memberships(n) ==
    {S \in SUBSET ((1..MaxFrames) \X (1..n)) : Cardinality(S) <= MaxJoinRows}
JoinTable(S, land) ==
    LET codes == SortSet({m[1] * (MaxBursts + 1) + m[2] : m \in S})
    IN  [k \in DOMAIN codes |->
            [frame_fid |-> codes[k] \div (MaxBursts + 1),
             burst_ogc_fid |-> codes[k] % (MaxBursts + 1),
             is_land |-> land[codes[k] % (MaxBursts + 1)]]]

\* The steps of create, lines 628-733, in the order of the code.
CreateSteps ==
    <<"get_esa_burst_db", "load_bursts", "save_burst_id_map",
      "make_burst_triplets", "get_land_df", "get_land_indicator",
      "create_frame_to_burst_mapping", "make_frame_to_burst_table",
      "make_frame_table", "save_frames", "update_burst_epsg",
      "add_gpkg_spatial_ref_sys", "save_utm_bounding_boxes",
      "make_minimal_db", "_get_metadata", "make_burst_to_frame_json",
      "make_frame_to_burst_json", "create_metadata_table",
      "create_metadata_table_minimal">>

StepIndex(steps, step) == CHOOSE k \in DOMAIN steps : steps[k] = step

\* The step after `step` in a list of steps, "returned" after the last.
NextIn(steps, step) ==
    IF StepIndex(steps, step) < Len(steps)
    THEN steps[StepIndex(steps, step) + 1] ELSE "returned"

\* A create that saves the bounding boxes before the codes of the frames
\* have been carried to the bursts.
CreateNextBoxesEarly(step) ==
    NextIn(<<"get_esa_burst_db", "load_bursts", "save_burst_id_map",
             "make_burst_triplets", "get_land_df", "get_land_indicator",
             "create_frame_to_burst_mapping", "make_frame_to_burst_table",
             "make_frame_table", "save_frames", "add_gpkg_spatial_ref_sys",
             "save_utm_bounding_boxes", "update_burst_epsg",
             "make_minimal_db", "_get_metadata", "make_burst_to_frame_json",
             "make_frame_to_burst_json", "create_metadata_table",
             "create_metadata_table_minimal">>, step)

\* Statements follow one another: no branch back, no retry.
CreateNext(step) == NextIn(CreateSteps, step)

PlainEnvelope == <<2002468, 4009134, 6015782, 8000246>>

InitTables ==
    /\ call = [op |-> "create", frames_bursts |-> <<>>]
    /\ ret = Pending
    /\ n_bursts = Unbound
    /\ fs = NoFiles
    /\ effects = {}
    /\ cwd = "/home"
    /\ pc = "make_frame_table"
    /\ out = <<>>
    /\ done = <<>>
    /\ gpkg_spatial_ref_sys = {}
    /\ spatial_ref_sys = {}
    /\ frames = <<>>
    /\ \E n \in 1..MaxBursts :
           /\ burst_id_map = [i \in 1..n |-> BurstRow(i, 0, PlainEnvelope)]
           /\ \E S \in Memberships(n), land \in [1..n -> BOOLEAN] :
                  frames_bursts = JoinTable(S, land)

\* create, line 680
MakeFrameTable ==
    /\ pc = "make_frame_table"
    /\ \E pick \in Picks(burst_id_map, frames_bursts) :
           LET r == make_frame_table(burst_id_map, frames_bursts, pick)
           IN  /\ frames' = r.frames
               /\ frames_bursts' = r.frames_bursts
               /\ call' = [call EXCEPT !.frames_bursts = frames_bursts]
    /\ pc' = CreateNext(pc)
    /\ done' = Append(done, pc)
    /\ UNCHANGED <<ret, burst_id_map, n_bursts, fs, effects, cwd, out>>
    /\ UNCHANGED srsVars

\* The geometries gpd.read_file finds in the frames layer, each the union
\* of the bursts of its frame: a polygon in UTM zone 31, one in zone 32,
\* and a multipolygon of two parts across the antimeridian.
FrameGeoms ==
    {Polygon(5, 1), Polygon(9, 1),
     [geom_type |-> "MultiPolygon",
      geoms |-> <<Part(1, 179), Part(1, -179)>>,
      cx |-> 0, cy |-> 1, greenland |-> FALSE]}

\* create, lines 681-696: the frames are read, given the codes of
\* get_epsg_codes and, from get_land_indicator over the shape of
\* get_opera_na_shape, the flag is_north_america (any truth values here),
\* and written back.  gpd.read_file yields the rows in the order of their
\* fid without the fid itself, and to_file writes the layer anew, so row n
\* gets fid n whatever frame_fid it was made for.  get_epsg_codes raises
\* ValueError on a table without a frame off the antimeridian (line 211),
\* the empty table among them: create ends there and the layer stays as
\* make_frame_table left it.
SaveFrames ==
    /\ pc = "save_frames"
    /\ \E geometry \in [DOMAIN frames -> FrameGeoms],
          is_in_north_america \in [DOMAIN frames -> BOOLEAN] :
           \E epsgs \in {get_epsg_codes(geometry)} :
               IF epsgs.err = "none"
               THEN /\ frames' = [n \in DOMAIN frames |->
                                     [frames[n] EXCEPT
                                         !.fid = n,
                                         !.epsg = epsgs.val[n],
                                         !.is_north_america =
                                             <<is_in_north_america[n]>>]]
                    /\ pc' = CreateNext(pc)
                    /\ UNCHANGED ret
               ELSE /\ ret' = epsgs
                    /\ pc' = "failed"
                    /\ UNCHANGED frames
    /\ done' = Append(done, pc)
    /\ UNCHANGED <<call, burst_id_map, n_bursts, fs, effects, cwd, out,
                   frames_bursts>>
    /\ UNCHANGED srsVars

\* create, line 698
UpdateBurstEpsg ==
    /\ pc = "update_burst_epsg"
    /\ \E choice \in Choices(burst_id_map, frames_bursts, frames) :
           burst_id_map' = update_burst_epsg(burst_id_map, frames_bursts,
                                             frames, choice)
    /\ pc' = CreateNext(pc)
    /\ done' = Append(done, pc)
    /\ UNCHANGED <<call, ret, n_bursts, fs, effects, cwd, out, frames,
                   frames_bursts>>
    /\ UNCHANGED srsVars

NextTables == MakeFrameTable \/ SaveFrames \/ UpdateBurstEpsg

SpecTables == InitTables /\ [][NextTables]_vars

\* C18: after make_frame_table there is one frames row for each frame_fid
\* of the join table, and its is_land is true exactly when some join row
\* of the frame has is_land true.
C18_FrameLandIsAny ==
    (pc = "save_frames" /\ call.op = "create") =>
        LET fb == call.frames_bursts
        IN  /\ \A k \in DOMAIN fb :
                   Cardinality({n \in DOMAIN frames :
                                   frames[n].fid = fb[k].frame_fid}) = 1
            /\ \A n \in DOMAIN frames :
                   /\ \E k \in DOMAIN fb : fb[k].frame_fid = frames[n].fid
                   /\ frames[n].is_land
                          <=> \E k \in DOMAIN fb :
                                  /\ fb[k].frame_fid = frames[n].fid
                                  /\ fb[k].is_land

\* update_burst_epsg has run and the next step has not.
BurstsUpdated ==
    /\ done # <<>>
    /\ done[Len(done)] = "update_burst_epsg"

\* The frame ids make_frame_table made the rows of frames for, in the
\* order of the rows.
FrameIdsMade ==
    SortSet({frames_bursts[k].frame_fid :
                k \in Joined(burst_id_map, frames_bursts)})

\* C17: after update_burst_epsg, for every (frame, burst) membership of
\* frames_bursts the burst holds the code of that frame, that is of the
\* frames row made for it, also when the burst is in several frames; a
\* burst of no frame holds 0.
C17_EveryMembershipEqual ==
    BurstsUpdated =>
        /\ \A k \in DOMAIN frames_bursts : \A i \in DOMAIN burst_id_map :
               burst_id_map[i].OGC_FID = frames_bursts[k].burst_ogc_fid =>
                   \E n \in DOMAIN frames :
                       /\ FrameIdsMade[n] = frames_bursts[k].frame_fid
                       /\ burst_id_map[i].epsg = frames[n].epsg
        /\ \A i \in DOMAIN burst_id_map :
               (\A k \in DOMAIN frames_bursts :
                    frames_bursts[k].burst_ogc_fid # burst_id_map[i].OGC_FID)
                   => burst_id_map[i].epsg = 0

(***************************************************************************)
(* antimeridian_epsg of the legacy builder (make_frame_db.py), with the    *)
(* same loop over mp.geoms as the current one.                             *)
(***************************************************************************)
\* The legacy function with the comparison of the current builder.
LegacyAmCurrentSign(mp) ==
    LET y_c == mp.cy
        acc == AmLoop(mp.geoms, Len(mp.geoms))
        base == IF y_c > 0 THEN 32600 ELSE 32700
        zone_addition == IF acc.x_weighted > 180 * acc.A THEN 1 ELSE 60
    IN  IF y_c >= 84 THEN 3413
        ELSE IF y_c <= -60 THEN 3031
        ELSE base + zone_addition

legacy_antimeridian_epsg(mp) ==
    LET y_c == mp.cy
        acc == AmLoop(mp.geoms, Len(mp.geoms))
        base == IF y_c > 0 THEN 32600 ELSE 32700
        \* x_c < 180 iff x_weighted < 180 * A, as A > 0
        zone_addition == IF acc.x_weighted < 180 * acc.A THEN 1 ELSE 60
    IN  IF y_c >= 84 THEN 3413
        ELSE IF y_c <= -60 THEN 3031
        ELSE base + zone_addition

\* Inputs: the multipolygons of the current builder's model and the same
\* around the legacy cut-off of 84.
LegacyAmGeoms ==
    AmGeoms \cup {[g EXCEPT !.cy = y] : g \in AmGeoms, y \in {83, 84, 85}}

InitLegacyEpsg ==
    /\ call \in {[op |-> "legacy_antimeridian_epsg", mp |-> mp] :
                    mp \in {g \in LegacyAmGeoms : ~g.greenland}}
    /\ ret = Pending
    /\ burst_id_map = <<>>
    /\ n_bursts = Unbound
    /\ fs = NoFiles
    /\ effects = {}
    /\ BuildIdle

LegacyAntimeridianEpsg ==
    /\ call.op = "legacy_antimeridian_epsg"
    /\ ret = Pending
    /\ ret' = Ok(legacy_antimeridian_epsg(call.mp))
    /\ UNCHANGED <<call, burst_id_map, n_bursts, fs, effects>>
    /\ UNCHANGED buildVars

NextLegacyEpsg == LegacyAntimeridianEpsg

SpecLegacyEpsg == InitLegacyEpsg /\ [][NextLegacyEpsg]_vars

\* The base of the UTM codes of the hemisphere of mp.
AmBase(mp) == IF mp.cy > 0 THEN 32600 ELSE 32700

\* The rule of the legacy function: 3413 from latitude 84 up, 3031 from
\* -60 down, else the base plus 1 when x_c < 180 and plus 60 otherwise.
LegacyRule ==
    LET mp == call.mp
    IN  ret.val =
            IF mp.cy >= 84 THEN 3413
            ELSE IF mp.cy <= -60 THEN 3031
            ELSE AmBase(mp) + (IF WeightedExcess(mp.geoms) < 0 THEN 1 ELSE 60)

\* The two builders add different zones to the base of mp: one 1, the
\* other 60.
ZoneAdditionsDiffer ==
    {ret.val - AmBase(call.mp),
     antimeridian_epsg(call.mp) - AmBase(call.mp)} = {1, 60}

\* C22 as stated: the legacy function follows its rule, and for every
\* geometry it does not treat as polar (latitude between -60 and 84) with
\* x_c # 180 the two builders return different zone additions.
C22_LegacyNonPolarDiffer ==
    Returned("legacy_antimeridian_epsg") =>
        /\ LegacyRule
        /\ (/\ call.mp.cy > -60
            /\ call.mp.cy < 84
            /\ WeightedExcess(call.mp.geoms) # 0) => ZoneAdditionsDiffer

\* C22, amended: the legacy function follows its rule, and for every
\* geometry neither builder treats as polar (latitude between -60 and 75)
\* with x_c # 180 the two builders return different zone additions; at
\* x_c = 180 both add 60.
C22_BothNonPolarDiffer ==
    Returned("legacy_antimeridian_epsg") =>
        /\ LegacyRule
        /\ (call.mp.cy > SOUTH_THRESHOLD /\ call.mp.cy < NORTH_THRESHOLD) =>
               IF WeightedExcess(call.mp.geoms) # 0 THEN ZoneAdditionsDiffer
               ELSE /\ ret.val = AmBase(call.mp) + 60
                    /\ antimeridian_epsg(call.mp) = ret.val

\* A geometry west of 180 on the weighted mean, non-polar for both: the
\* legacy builder adds 1, the current one 60.
C22_Witness ==
    /\ Returned("legacy_antimeridian_epsg")
    /\ call.mp.cy = 1
    /\ WeightedExcess(call.mp.geoms) < 0
    /\ ret.val = 32601
    /\ antimeridian_epsg(call.mp) = 32660

(***************************************************************************)
(* save_utm_bounding_boxes of the legacy builder (make_frame_db.py).  A    *)
(* row of a table without the four box columns has no such fields.         *)
(***************************************************************************)
\* Round(x / s) * s of SQLite for a double x: Round adds 0.5 to the
\* magnitude of the double quotient and drops the fraction of the sum.
SqlRoundSnap(x, s) == SqlSnap("Round", x, s)

\* The row the SELECT ... FROM bboxes computes from the envelope env of
\* a row with code epsg; transform(geom, 0) is NULL.
LegacyBox(env, epsg, margin, snap) ==
    IF epsg = 0
    THEN [xmin |-> NULL, ymin |-> NULL, xmax |-> NULL, ymax |-> NULL]
    ELSE LET s == FormatSnap(snap)
         IN  [xmin |-> SqlRoundSnap(FlSub(Double(env[1]), Double(margin)), s),
              ymin |-> SqlRoundSnap(FlSub(Double(env[2]), Double(margin)), s),
              xmax |-> SqlRoundSnap(FlAdd(Double(env[3]), Double(margin)), s),
              ymax |-> SqlRoundSnap(FlAdd(Double(env[4]), Double(margin)), s)]

\* The defaults of the legacy builder (4000 m, 50 m), no margin, and no
\* margin with a snap of 0.75 m.
LegacyBoxArgs == {<<80000, 1000>>, <<0, 1000>>, <<0, 15>>}

\* The boxes of these arguments on the envelopes above, computed once.
LegacyBoxes ==
    {<<<<env, args>>, LegacyBox(env, NORTH_EPSG, args[1], args[2])>> :
         env \in Envelopes, args \in LegacyBoxArgs}
LegacyBoxOf(env, epsg, margin, snap) ==
    IF epsg # 0 /\ \E known \in LegacyBoxes :
                       known[1] = <<env, <<margin, snap>>>>
    THEN (CHOOSE known \in LegacyBoxes :
              known[1] = <<env, <<margin, snap>>>>)[2]
    ELSE LegacyBox(env, epsg, margin, snap)

HasBoxColumns(table) == \A i \in DOMAIN table : "xmin" \in DOMAIN table[i]

\* legacy save_utm_bounding_boxes.  The four ALTER TABLE statements are
\* handed to one execute, which raises before it runs any of them, and the
\* bare except passes; the UPDATE then fails on a table without the
\* columns.  Its subquery is not correlated with the row being updated, so
\* every row is set from the one row the subquery yields, the pick-th.
legacy_save_utm_bounding_boxes(table, margin, snap, pick) ==
    IF ~HasBoxColumns(table)
    THEN [ret |-> Raise("OperationalError"), table |-> table]
    ELSE LET b == LegacyBoxOf(table[pick].env, table[pick].epsg, margin,
                              snap)
         IN  [ret |-> Ok(None),
              table |-> [i \in DOMAIN table |->
                            [table[i] EXCEPT !.xmin = b.xmin,
                                             !.ymin = b.ymin,
                                             !.xmax = b.xmax,
                                             !.ymax = b.ymax]]]

\* Inputs: the tables of a build (no box columns) and tables that have
\* them, of bursts with their code or still with 0.
LegacyBurstRow(fid, e, env, columns) ==
    IF columns THEN BurstRow(fid, e, env)
    ELSE [OGC_FID |-> fid, epsg |-> e, env |-> env]
LegacyBurstTables ==
    UNION {{[i \in 1..n |-> LegacyBurstRow(i, es[i], envs[i], columns)] :
               es \in [1..n -> {0, 32631}], envs \in [1..n -> Envelopes],
               columns \in BOOLEAN} :
           n \in 1..MaxBursts}

InitLegacyBBox ==
    /\ call = [op |-> "none"]
    /\ ret = Pending
    /\ burst_id_map \in LegacyBurstTables
    /\ n_bursts = Unbound
    /\ fs = NoFiles
    /\ effects = {}
    /\ BuildIdle

LegacySaveUtmBoundingBoxes ==
    \E args \in LegacyBoxArgs, pick \in DOMAIN burst_id_map :
        LET r == legacy_save_utm_bounding_boxes(burst_id_map, args[1],
                                                args[2], pick)
        IN  /\ call' = [op |-> "legacy_save_utm_bounding_boxes",
                        margin |-> args[1], snap |-> args[2], pick |-> pick]
            /\ ret' = r.ret
            /\ burst_id_map' = r.table
            /\ UNCHANGED <<n_bursts, fs, effects>>
            /\ UNCHANGED buildVars

NextLegacyBBox == LegacySaveUtmBoundingBoxes

SpecLegacyBBox == InitLegacyBBox /\ [][NextLegacyBBox]_vars

\* C23: legacy save_utm_bounding_boxes(margin, snap) returns, and the
\* corners it has written are round((coordinate - margin) / snap) * snap
\* for the minimum corner and round((coordinate + margin) / snap) * snap
\* for the maximum corner of the envelope they were computed from.
C23_LegacyRoundedCorners ==
    call.op = "legacy_save_utm_bounding_boxes" =>
        /\ ret.err = "none"
        /\ LET row == burst_id_map[call.pick]
               m == call.margin
               s == call.snap
               Rounded(x) == IF 2 * (x % s) >= s THEN (x \div s + 1) * s
                             ELSE (x \div s) * s
           IN  row.epsg # 0 =>
                   /\ row.xmin = <<Rounded(row.env[1] - m), 0>>
                   /\ row.ymin = <<Rounded(row.env[2] - m), 0>>
                   /\ row.xmax = <<Rounded(row.env[3] + m), 0>>
                   /\ row.ymax = <<Rounded(row.env[4] + m), 0>>

\* C24: after save_utm_bounding_boxes of the legacy builder has returned,
\* the box of every burst row is the one computed from the envelope of
\* that row in the code of that row, and from no other row's.
C24_LegacyOwnEnvelope ==
    (call.op = "legacy_save_utm_bounding_boxes" /\ ret.err = "none") =>
        \A i \in DOMAIN burst_id_map :
            LET row == burst_id_map[i]
                own == LegacyBoxOf(row.env, row.epsg, call.margin,
                                   call.snap)
            IN  /\ row.xmin = own.xmin
                /\ row.ymin = own.ymin
                /\ row.xmax = own.xmax
                /\ row.ymax = own.ymax

\* astype(int) of a REAL read from the database: the whole metres of the
\* double, towards zero.  A double just short of a whole number of metres
\* (62.99999999999999) loses that metre.
AsTypeInt(real) ==
    LET v == real[1]
        whole == IF v >= 0 THEN v \div 20 ELSE -((-v) \div 20)
        short == /\ v % 20 = 0
                 /\ (v > 0 /\ real[2] < 0) \/ (v < 0 /\ real[2] > 0)
    IN  IF ~short THEN whole ELSE IF v > 0 THEN whole - 1 ELSE whole + 1

\* The columns make_minimal_db casts, in the order of the casts.
BoxColumns == <<"xmin", "ymin", "xmax", "ymax">>

(***************************************************************************)
(* The entry point of the legacy builder (make_frame_db.py, lines          *)
(* 417-500) and the functions it calls.  A file system is the function     *)
(* from the paths that exist to what each file holds; the three tables of  *)
(* the output file are burst_id_map, frames_bursts and frames.             *)
(***************************************************************************)
WriteFile(files, path, content) ==
    [p \in (DOMAIN files) \cup {path} |->
        IF p = path THEN content ELSE files[p]]

\* The subswath rows of the first t tracks of the ESA database: three rows
\* for a burst id, every burst of a track with the geometry of the track.
RECURSIVE EsaRows(_, _, _)
EsaRows(df, geoms, t) ==
    IF t = 0 THEN <<>>
    ELSE LET before == EsaRows(df, geoms, t - 1)
             ids == df[t].burst_ids
         IN  before \o
             [k \in 1..(3 * Len(ids)) |->
                 [OGC_FID |-> Len(before) + k,
                  burst_id |-> ids[((k - 1) \div 3) + 1],
                  subswath_name |-> <<"I", "W", Digits[((k - 1) % 3) + 2]>>,
                  relative_orbit_number |-> df[t].track,
                  geom |-> geoms[t]]]

\* Lines 428-443: the table read from the ESA database with its JPL ids
\* and the placeholder code 0, as saved to the layer burst_id_map.
LegacyBurstTable(df, geoms) ==
    LET esa == EsaRows(df, geoms, Len(df))
        jpl_ids == legacy_make_jpl_burst_id(esa)
    IN  [i \in DOMAIN esa |->
            [OGC_FID |-> esa[i].OGC_FID,
             burst_id |-> esa[i].burst_id,
             subswath_name |-> esa[i].subswath_name,
             relative_orbit_number |-> esa[i].relative_orbit_number,
             geom |-> esa[i].geom,
             burst_id_jpl |-> jpl_ids[i],
             epsg |-> 0]]

\* legacy make_frame_to_burst_table: to_sql writes the frame with its
\* index, 0, 1, 2, ..., to a table frames_bursts that does not exist yet.
legacy_make_frame_to_burst_table(df_frame_to_burst_id) ==
    [k \in DOMAIN df_frame_to_burst_id |->
        [index |-> k - 1,
         relative_orbit_number |->
             df_frame_to_burst_id[k].relative_orbit_number,
         frame_number |-> df_frame_to_burst_id[k].frame_number,
         burst_id |-> df_frame_to_burst_id[k].burst_id]]

\* ST_UnaryUnion(ST_Collect(geom)) of geometries that are all the same one.
UnaryUnion(geoms) == CHOOSE g \in geoms : TRUE

\* legacy make_frame_table: one row for each (relative_orbit_number,
\* frame_number) of the join of the bursts with frames_bursts on burst_id,
\* in the order of the groups, with the union of the geometries of the
\* joined burst rows and no code.
legacy_make_frame_table(table, fb) ==
    LET joined == {k \in DOMAIN fb :
                      \E i \in DOMAIN table :
                          table[i].burst_id = fb[k].burst_id}
        K == Len(fb) + 1
        keys == SortSet({fb[k].relative_orbit_number * K
                         + fb[k].frame_number : k \in joined})
        Group(n) == {k \in joined :
                        /\ fb[k].relative_orbit_number = keys[n] \div K
                        /\ fb[k].frame_number = keys[n] % K}
    IN  [n \in DOMAIN keys |->
            [fid |-> n,
             relative_orbit_number |-> keys[n] \div K,
             frame_number |-> keys[n] % K,
             epsg |-> NULL,
             geom |-> UnaryUnion(
                 {table[i].geom :
                     i \in {j \in DOMAIN table :
                               \E k \in Group(n) :
                                   table[j].burst_id = fb[k].burst_id}})]]

\* legacy get_epsg_codes, lines 141-187: every geometry that is not a
\* Polygon goes to antimeridian_epsg; the thresholds are 84 and -60.
legacy_get_epsg_codes(df) ==
    LET n == Len(df)
        zeros == [i \in 1..n |-> 0]
        am_idxs == [i \in 1..n |-> df[i].geom_type # "Polygon"]
        not_am == [i \in 1..n |-> ~am_idxs[i]]
        e1 == [i \in 1..n |->
                  IF am_idxs[i] THEN legacy_antimeridian_epsg(df[i])
                  ELSE zeros[i]]
        others == Pick(df, not_am)
        e2 == MaskFill(e1, [i \in 1..n |-> not_am[i] /\ df[i].cy > 84], 3413)
        e3 == MaskFill(e2, [i \in 1..n |-> not_am[i] /\ df[i].cy < -60], 3031)
        utm_idxs == [k \in DOMAIN others |->
                        others[k].cy < 84 /\ others[k].cy > -60]
        utm_rows == Pick(others, utm_idxs)
        north_idxs == [k \in DOMAIN utm_rows |-> utm_rows[k].cy > 0]
        south_idxs == [k \in DOMAIN utm_rows |-> ~north_idxs[k]]
        rows_north == Pick(utm_rows, north_idxs)
        zones_north == [k \in DOMAIN rows_north |->
            32600 + latlon_to_zone_number(rows_north[k].cy, rows_north[k].cx)]
        e4 == MaskAssign(e3,
                  [i \in 1..n |-> not_am[i] /\ df[i].cy < 84 /\ df[i].cy > 0],
                  zones_north)
        rows_south == Pick(utm_rows, south_idxs)
        zones_south == [k \in DOMAIN rows_south |->
            32700 + latlon_to_zone_number(rows_south[k].cy, rows_south[k].cx)]
    IN  IF Len(others) = 0
        THEN Raise("ValueError")          \* xs, ys = other_coords.T
        ELSE IF e4.err # "none" THEN e4
        ELSE MaskAssign(e4.val,
                 [i \in 1..n |-> not_am[i] /\ df[i].cy > -60 /\ df[i].cy < 0],
                 zones_south)

\* The frames a burst row can take its code from: the rows of burst_epsgs
\* with its OGC_FID, the join on burst_id and then on frame and track.
LegacyBurstEpsgsOf(table, fb, fr, i) ==
    {n \in DOMAIN fr :
        \E k \in DOMAIN fb :
            /\ fb[k].burst_id = table[i].burst_id
            /\ fb[k].frame_number = fr[n].frame_number
            /\ fb[k].relative_orbit_number = fr[n].relative_orbit_number}

\* The first k rows after the UPDATE, in every way SQLite may run it.
RECURSIVE LegacyUpdated(_, _, _, _)
LegacyUpdated(table, fb, fr, k) ==
    IF k = 0 THEN {<<>>}
    ELSE LET codes == {fr[n].epsg : n \in LegacyBurstEpsgsOf(table, fb, fr, k)}
             rows == IF codes = {} THEN {table[k]}
                     ELSE {[table[k] EXCEPT !.epsg = c] : c \in codes}
         IN  {Append(t, row) : t \in LegacyUpdated(table, fb, fr, k - 1),
                               row \in rows}

\* legacy update_burst_epsg: UPDATE burst_id_map SET epsg =
\* burst_epsgs.epsg FROM burst_epsgs WHERE the OGC_FIDs agree.  When several
\* rows of burst_epsgs match a burst, SQLite uses one of them and does not
\* say which: the tables the statement may leave.
legacy_update_burst_epsg(table, fb, fr) ==
    LegacyUpdated(table, fb, fr, Len(table))

\* legacy make_minimal_db: the table written to output_path; the SELECT
\* fails on a table without the box columns and astype(int) on a box that
\* is NULL.
legacy_make_minimal_db(table) ==
    LET Column(c) == {table[i][c] : i \in DOMAIN table}
        Bad(c) == NULL \in Column(c)
        first == CHOOSE k \in 1..4 :
                     /\ Bad(BoxColumns[k])
                     /\ \A j \in 1..(k - 1) : ~Bad(BoxColumns[j])
    IN  IF ~HasBoxColumns(table) THEN Raise("DatabaseError")
        ELSE IF \E k \in 1..4 : Bad(BoxColumns[k])
        THEN IF Column(BoxColumns[first]) = {NULL}
             THEN Raise("TypeError") ELSE Raise("ValueError")
        ELSE Ok([i \in DOMAIN table |->
                    [burst_id_jpl |-> table[i].burst_id_jpl,
                     epsg |-> table[i].epsg,
                     xmin |-> AsTypeInt(table[i].xmin),
                     ymin |-> AsTypeInt(table[i].ymin),
                     xmax |-> AsTypeInt(table[i].xmax),
                     ymax |-> AsTypeInt(table[i].ymax)]])

\* Lines 494-495: outfile.replace(ext, f"_bbox_only{ext}"), ext being the
\* suffix of outfile, the last piece of the path.
LegacyOutMinimal(outfile) ==
    LET ext == outfile[Len(outfile)]
    IN  SubSeq(outfile, 1, Len(outfile) - 1) \o <<"_bbox_only", ext>>

\* The shapefiles make_land_df reads and the name the entry point gives the
\* buffered land, f"usgs_land_{land_buffer_deg}deg_buffered.geojson".
ShapefileL1 == <<"data/GSHHS_shp/h/GSHHS_h_L1", ".shp">>
ShapefileL6 == <<"data/GSHHS_shp/h/GSHHS_h_L6", ".shp">>
LandOutname(d) == <<"usgs_land_">> \o Str(d) \o <<"deg_buffered", ".geojson">>
LegacyLand(d) == <<"land", d>>

\* make_land_df, lines 192-204: Path(outname) raises TypeError for the
\* outname None; a file of that name is read and returned; otherwise the
\* two shapefiles are read (an error of the reader when one is missing),
\* buffered and dissolved, and the result is written to outname.
make_land_df(files, buffer_deg, outname, driver) ==
    IF outname = None
    THEN [ret |-> Raise("TypeError"), fs |-> files]
    ELSE IF outname \in DOMAIN files
    THEN [ret |-> Ok(files[outname]), fs |-> files]
    ELSE IF ShapefileL1 \notin DOMAIN files \/ ShapefileL6 \notin DOMAIN files
    THEN [ret |-> Raise("DriverError"), fs |-> files]
    ELSE [ret |-> Ok(LegacyLand(buffer_deg)),
          fs |-> WriteFile(files, outname, LegacyLand(buffer_deg))]

\* Inputs of the entry point: the geometry of a track is a polygon north
\* or south of the equator, on it, or beyond 84 degrees, or a multipolygon
\* across the antimeridian; the directory holds the buffered land of an
\* earlier run or the two shapefiles.
TrackGeoms ==
    {Polygon(5, 1), Polygon(5, -1), Polygon(5, 0), Polygon(5, 85),
     [geom_type |-> "MultiPolygon",
      geoms |-> <<Part(1, 179), Part(1, -179)>>,
      cx |-> 0, cy |-> 1, greenland |-> FALSE]}
\* The catalogues: every burst table with the northern polygon on each of
\* its tracks, and the shortest tables of one and of two tracks with every
\* geometry.
Catalogues ==
    {[df |-> df, geoms |-> [t \in DOMAIN df |-> Polygon(5, 1)]] :
        df \in BurstTracks}
    \cup
    {[df |-> df, geoms |-> geoms] :
        df \in {<<Track(1, 1)>>}, geoms \in [{1} -> TrackGeoms]}
    \cup
    {[df |-> df, geoms |-> geoms] :
        df \in {<<Track(1, 1), Track(2, 1)>>},
        geoms \in [{1, 2} -> TrackGeoms]}
LandBufferDeg == 1
LegacyFiles ==
    {WriteFile(NoFiles, LandOutname(LandBufferDeg), LegacyLand(LandBufferDeg)),
     WriteFile(WriteFile(NoFiles, ShapefileL1, "L1"), ShapefileL6, "L6")}

InitLegacy ==
    /\ call = [op |-> "none"]
    /\ ret = Pending
    /\ burst_id_map = <<>>
    /\ n_bursts = Unbound
    /\ fs \in LegacyFiles
    /\ effects = {}
    /\ BuildIdle

\* The state a run of the entry point ends in: the last step it entered,
\* the name outfile is bound to, what the step raised (or None at the end
\* of the script), the three tables and the files.
RunEnd(reached, outfile, result, table, fb, fr, files) ==
    [reached |-> reached, outfile |-> outfile, ret |-> result,
     table |-> table, frames_bursts |-> fb, frames |-> fr, fs |-> files]

\* Lines 494-497: the minimal table is made and written.
Line497(name, fb, fr, files, table, minimal) ==
    IF minimal.err # "none"
    THEN RunEnd("make_minimal_db", name, minimal, table, fb, fr, files)
    ELSE RunEnd("end", name, Ok(None), table, fb, fr,
                WriteFile(files, LegacyOutMinimal(name[1]),
                          {"burst_id_map"}))

\* Line 492 has run: boxes is what save_utm_bounding_boxes left.
Line492(name, fb, fr, files, boxes) ==
    IF boxes.ret.err # "none"
    THEN RunEnd("save_utm_bounding_boxes", name, boxes.ret, boxes.table, fb,
                fr, files)
    ELSE Line497(name, fb, fr, files, boxes.table,
                 legacy_make_minimal_db(boxes.table))

\* Lines 489-492: one run for each table the UPDATE of update_burst_epsg
\* may leave.
Line489(args, name, fb, fr, files, updated) ==
    {Line492(name, fb, fr, files,
             legacy_save_utm_bounding_boxes(t, args.margin, args.snap, 1)) :
         t \in updated}

\* Lines 478-487: without --land-buffer-deg nothing is read; with it the
\* buffered land is made under its name and then asked for once more with
\* the outname None.
SecondLand(land, land1) ==
    IF land1.ret.err # "none" THEN land1
    ELSE make_land_df(land1.fs, land[1], None, "GeoJSON")
LandBranch(land, files) ==
    IF land = None THEN [ret |-> Ok(None), fs |-> files]
    ELSE SecondLand(land, make_land_df(files, land[1], LandOutname(land[1]),
                                       "GeoJSON"))
Line487(args, name, df_burst, fb, fr, land) ==
    IF land.ret.err # "none"
    THEN {RunEnd("make_land_df", name, land.ret, df_burst, fb, fr, land.fs)}
    ELSE Line489(args, name, fb, fr, land.fs,
                 legacy_update_burst_epsg(df_burst, fb, fr))

\* Lines 464-474: the codes of the frames are computed and the frames
\* written back with them.
Line464(args, name, df_burst, fb, fr, files, epsgs) ==
    IF epsgs.err # "none"
    THEN {RunEnd("get_epsg_codes", name, epsgs, df_burst, fb, fr, files)}
    ELSE Line487(args, name, df_burst, fb,
                 [n \in DOMAIN fr |-> [fr[n] EXCEPT !.epsg = epsgs.val[n]]],
                 LandBranch(args.land_buffer_deg, files))

\* Lines 458-461: the frames are made from the bursts and frames_bursts.
Line458(args, name, df_burst, fb, fr, files) ==
    Line464(args, name, df_burst, fb, fr, files,
            legacy_get_epsg_codes([n \in DOMAIN fr |-> fr[n].geom]))

\* Line 454: frames_bursts is written.
Line454(args, name, df_burst, fb, files) ==
    Line458(args, name, df_burst, fb, legacy_make_frame_table(df_burst, fb),
            WriteFile(files, name[1],
                      {"burst_id_map", "frames_bursts", "frames"}))

\* Lines 443-451: the layer burst_id_map is written to outfile, and
\* df_frame_to_burst_id is what define_frames_to_burst returned.
Line443(args, name, df_burst, files, df_frame_to_burst_id) ==
    IF df_frame_to_burst_id.err # "none"
    THEN {RunEnd("define_frames_to_burst", name, df_frame_to_burst_id,
                 df_burst, <<>>, <<>>,
                 WriteFile(files, name[1], {"burst_id_map"}))}
    ELSE Line454(args, name, df_burst,
                 legacy_make_frame_to_burst_table(df_frame_to_burst_id.val),
                 WriteFile(files, name[1], {"burst_id_map"}))

\* Lines 422-443: outfile is bound only when -o is absent, and is read
\* only after the ESA database at line 443.
Line422(df, geoms, args, name, files, table, df_frame_to_burst_id) ==
    IF name = Unbound
    THEN {RunEnd("to_file", name, Raise("NameError"), table, <<>>, <<>>,
                 files)}
    ELSE Line443(args, name, LegacyBurstTable(df, geoms), files,
                 df_frame_to_burst_id)

Parsed(df, geoms, args, files, table, df_frame_to_burst_id) ==
    IF args.err # "none"
    THEN {RunEnd("get_parser", Unbound, args, table, <<>>, <<>>, files)}
    ELSE Line422(df, geoms, args.val, BindOutfile(args.val), files, table,
                 df_frame_to_burst_id)

\* python make_frame_db.py -n N --overlap-bursts O [-o OUTFILE]
\* [--land-buffer-deg D], lines 417-500, on an ESA database that holds the
\* tracks df with the geometries geoms, in a directory with the files
\* `files` and without the output file.  df_frame_to_burst_id is what
\* define_frames_to_burst returns at line 451; table is burst_id_map before
\* the run.  Each statement that raises ends the run; the result is the
\* set of the states the run may end in.
Script(df, geoms, argv, files, table, df_frame_to_burst_id) ==
    Parsed(df, geoms, get_parser(argv), files, table, df_frame_to_burst_id)

\* A run of the script.  Lines 420-421 bind the module-level n_bursts once
\* the options are parsed, and define_frames_to_burst would run with it;
\* get_parser raises, so the run ends at line 420 with n_bursts unbound.
Main ==
    /\ call.op = "none"
    /\ \E esa \in Catalogues, size \in FrameSizes,
          o \in {NoOption, <<"out.gpkg">>},
          land \in {None, <<LandBufferDeg>>} :
        \E argv \in {[n |-> size[1], overlap |-> size[2], o |-> o,
                      land_buffer_deg |-> land,
                      margin |-> 80000, snap |-> 1000]} :
            /\ n_bursts' = IF get_parser(argv).err # "none" THEN n_bursts
                           ELSE <<size[1]>>
            /\ \E run \in
                     Script(esa.df, esa.geoms, argv, fs, burst_id_map,
                            define_frames_to_burst(esa.df, size[1],
                                                   size[2])') :
                /\ call' = [op |-> "main", df_burst |-> esa.df,
                            geoms |-> esa.geoms, outfile |-> o,
                            n_bursts_per_frame |-> size[1],
                            overlap |-> size[2], land_buffer_deg |-> land,
                            outfile_name |-> run.outfile,
                            reached |-> run.reached]
                /\ ret' = run.ret
                /\ burst_id_map' = run.table
                /\ frames_bursts' = run.frames_bursts
                /\ frames' = run.frames
                /\ fs' = run.fs
                /\ UNCHANGED <<effects, cwd, pc, out, done, srsVars>>

NextLegacy == Main \/ CallMakeFrameSlices \/ CallDefineFrames

SpecLegacy == InitLegacy /\ [][NextLegacy]_vars

(***************************************************************************)
(* add_gpkg_spatial_ref_sys (build_frame_db.py).  gpkg_spatial_ref_sys is  *)
(* the set of its rows, at most one for a srs_id (the primary key);        *)
(* spatial_ref_sys is the set of its rows, empty also when the table does  *)
(* not exist.                                                              *)
(***************************************************************************)
\* epsgs, lines 335-337
RegisteredEpsgs ==
    <<SOUTH_EPSG, NORTH_EPSG, 4326>>
    \o [i \in 1..60 |-> 32600 + i] \o [i \in 1..60 |-> 32700 + i]

SrsRow(id, organization, definition) ==
    [srs_id |-> id, organization |-> organization,
     organization_coordsys_id |-> id, definition |-> definition]

\* SELECT gpkgInsertEpsgSRID(epsg): the engine adds its row for a code it
\* knows and that the table does not hold, and fails otherwise.
gpkgInsertEpsgSRID(table, epsg, engine) ==
    IF epsg \notin engine \/ \E row \in table : row.srs_id = epsg
    THEN [err |-> "OperationalError", table |-> table]
    ELSE [err |-> "none",
          table |-> table \cup {SrsRow(epsg, "EPSG", "engine")}]

\* INSERT INTO gpkg_spatial_ref_sys ... VALUES (..., 32760, ...), lines
\* 349-368
InsertZone60S(table) ==
    IF \E row \in table : row.srs_id = 32760
    THEN [err |-> "IntegrityError", table |-> table]
    ELSE [err |-> "none",
          table |-> table \cup {SrsRow(32760, "EPSG", "hand-written")}]

\* INSERT INTO spatial_ref_sys SELECT ... FROM gpkg_spatial_ref_sys
MirrorOf(table) ==
    {[srid |-> row.srs_id, auth_name |-> row.organization,
      auth_srid |-> row.organization_coordsys_id,
      srtext |-> row.definition, proj4text |-> NULL] : row \in table}

\* The loop of lines 341-346 over the codes from the lo-th to the hi-th,
\* first half then second half; stop_on_error is FALSE in the code, whose
\* except clause passes over a failed insert.
RECURSIVE InsertEpsgs(_, _, _, _, _)
InsertEpsgs(table, lo, hi, engine, stop_on_error) ==
    IF lo = hi THEN gpkgInsertEpsgSRID(table, RegisteredEpsgs[lo], engine)
    ELSE LET mid == (lo + hi) \div 2
             first == InsertEpsgs(table, lo, mid, engine, stop_on_error)
         IN  IF first.err # "none" /\ stop_on_error THEN first
             ELSE InsertEpsgs(first.table, mid + 1, hi, engine,
                              stop_on_error)

\* The routine without its except clauses: the first failed insert ends it.
AddSrsWithoutExcept(table, engine) ==
    LET looped == InsertEpsgs(table, 1, Len(RegisteredEpsgs), engine, TRUE)
        patched == InsertZone60S(looped.table)
    IN  IF looped.err # "none"
        THEN [ret |-> Raise(looped.err),
              gpkg_spatial_ref_sys |-> looped.table,
              spatial_ref_sys |-> spatial_ref_sys]
        ELSE IF patched.err # "none"
        THEN [ret |-> Raise(patched.err),
              gpkg_spatial_ref_sys |-> patched.table,
              spatial_ref_sys |-> spatial_ref_sys]
        ELSE [ret |-> Ok(None), gpkg_spatial_ref_sys |-> patched.table,
              spatial_ref_sys |-> MirrorOf(patched.table)]

\* add_gpkg_spatial_ref_sys on a database whose gpkg_spatial_ref_sys is
\* table, with an engine that knows the codes of engine.
add_gpkg_spatial_ref_sys(table, engine) ==
    LET looped == InsertEpsgs(table, 1, Len(RegisteredEpsgs), engine,
                             FALSE)
        patched == InsertZone60S(looped.table)
    IN  \* DROP TABLE IF EXISTS, CREATE TABLE, INSERT ... SELECT
        [ret |-> Ok(None), gpkg_spatial_ref_sys |-> patched.table,
         spatial_ref_sys |-> MirrorOf(patched.table)]

\* The engine knows every registered code, or every one but 32760.
Engines ==
    {{RegisteredEpsgs[k] : k \in DOMAIN RegisteredEpsgs} \ gap :
        gap \in {{}, {32760}}}

\* Inputs: the rows a new GeoPackage comes with, and next to them rows
\* for some of the codes, the engine's or someone else's; a
\* spatial_ref_sys that is empty, stale or a mirror already.
GpkgRows ==
    {SrsRow(-1, "NONE", "undefined"), SrsRow(0, "NONE", "undefined"),
     SrsRow(4326, "EPSG", "engine")}
SomeEpsgs == {SOUTH_EPSG, 32601, 32760}
PriorSrsTables ==
    {GpkgRows \cup {SrsRow(id, "EPSG", defs[id]) :
                       id \in {c \in SomeEpsgs : defs[c] # "absent"}} :
        defs \in [SomeEpsgs -> {"absent", "engine", "other"}]}
PriorMirrors(table) ==
    {{}, MirrorOf(table),
     {[srid |-> 32601, auth_name |-> "EPSG", auth_srid |-> 32601,
       srtext |-> "stale", proj4text |-> NULL]}}

InitSrs ==
    /\ call = [op |-> "none"]
    /\ ret = Pending
    /\ burst_id_map = <<>>
    /\ n_bursts = Unbound
    /\ fs = NoFiles
    /\ effects = {}
    /\ cwd = "/home"
    /\ pc = "idle"
    /\ out = <<>>
    /\ frames = <<>>
    /\ frames_bursts = <<>>
    /\ done = <<>>
    /\ gpkg_spatial_ref_sys \in PriorSrsTables
    /\ spatial_ref_sys \in PriorMirrors(gpkg_spatial_ref_sys)

\* A call of add_gpkg_spatial_ref_sys, the first or a later one; before
\* is the table the call found.
AddGpkgSpatialRefSys ==
    /\ pc = "idle"
    /\ \E engine \in Engines :
           LET r == add_gpkg_spatial_ref_sys(gpkg_spatial_ref_sys, engine)
           IN  /\ call' = [op |-> "add_gpkg_spatial_ref_sys",
                           before |-> gpkg_spatial_ref_sys,
                           again |-> call.op = "add_gpkg_spatial_ref_sys"]
               /\ ret' = r.ret
               /\ gpkg_spatial_ref_sys' = r.gpkg_spatial_ref_sys
               /\ spatial_ref_sys' = r.spatial_ref_sys
    /\ UNCHANGED <<burst_id_map, n_bursts, fs, effects, cwd, pc, out, frames,
                   frames_bursts, done>>

NextSrs == AddGpkgSpatialRefSys

SpecSrs == InitSrs /\ [][NextSrs]_vars

\* C21: a call of add_gpkg_spatial_ref_sys returns normally whatever rows
\* it found, and leaves every row it found as it was; on return
\* spatial_ref_sys has exactly one row for each row of
\* gpkg_spatial_ref_sys, with its srid, and a row for each of the codes
\* 3031, 3413, 4326, 32601..32660 and 32701..32760.
C21_SrsMirrored ==
    call.op = "add_gpkg_spatial_ref_sys" =>
        /\ ret = Ok(None)
        /\ call.before \subseteq gpkg_spatial_ref_sys
        /\ \A row \in gpkg_spatial_ref_sys :
               Cardinality({m \in spatial_ref_sys :
                               m.srid = row.srs_id}) = 1
        /\ \A m \in spatial_ref_sys :
               \E row \in gpkg_spatial_ref_sys : row.srs_id = m.srid
        /\ \A id \in {3031, 3413, 4326} \cup (32601..32660)
                     \cup (32701..32760) :
               \E m \in spatial_ref_sys : m.srid = id

\* The routine has returned after finding codes already present, among
\* them a row that is not the engine's, and a stale spatial_ref_sys or a
\* run before it.
C21_Witness ==
    /\ call.op = "add_gpkg_spatial_ref_sys"
    /\ \E row \in call.before : row.definition = "other"
    /\ \E row \in gpkg_spatial_ref_sys : row.definition = "hand-written"
    /\ call.again

(***************************************************************************)
(* create (build_frame_db.py): the build from the ESA database to the      *)
(* exported files, step by step.  The arguments and the local variables of *)
(* the call are the fields of call; the tables of the output database are  *)
(* burst_id_map, frames_bursts and frames; the other files written are in  *)
(* fs.                                                                     *)
(***************************************************************************)
USGS_LAND_URL ==
    "https://www.ngdc.noaa.gov/mgg/shorelines/data/gshhg/latest/gshhg-shp-2.3.7.zip"
GREENLAND_URL ==
    "https://public.opendatasoft.com/api/explore/v2.1/catalog/datasets/world-administrative-boundaries/exports/geojson"
\* imported from _esa_burst_db
ESA_DB_URL == "ESA_DB_URL"

\* A metadata record that names the frame sizes whatever the mode.
MetadataWithSizes(margin, snap, target_frame, land_buffer_deg, optimize_land, min_frame, max_frame) ==
    [margin |-> margin, snap |-> snap, target_frame_size |-> target_frame,
     version |-> call.version, last_modified |-> call.now,
     land_buffer_deg |-> land_buffer_deg, land_optimized |-> optimize_land,
     usgs_land_shape_url |-> USGS_LAND_URL,
     greenland_shape_url |-> GREENLAND_URL, esa_burst_db_url |-> ESA_DB_URL,
     min_frame_size |-> min_frame, max_frame_size |-> max_frame]

\* _get_metadata; __version__ and the clock read by datetime.now() are
\* call.version and call.now.
_get_metadata(margin, snap, target_frame, land_buffer_deg, optimize_land, min_frame, max_frame) ==
    LET base ==
            [margin |-> margin, snap |-> snap,
             target_frame_size |-> target_frame,
             version |-> call.version, last_modified |-> call.now,
             land_buffer_deg |-> land_buffer_deg,
             land_optimized |-> optimize_land,
             usgs_land_shape_url |-> USGS_LAND_URL,
             greenland_shape_url |-> GREENLAND_URL,
             esa_burst_db_url |-> ESA_DB_URL]
    IN  IF optimize_land
        THEN ("min_frame_size" :> min_frame) @@ ("max_frame_size" :> max_frame)
             @@ base
        ELSE base

\* _get_burst_to_frame_list: for each burst of the join table, its frames
\* in the order of the table.
_get_burst_to_frame_list(df_frame_to_burst_id) ==
    [b \in {df_frame_to_burst_id[k].burst_ogc_fid :
               k \in DOMAIN df_frame_to_burst_id} |->
        LET rows == SelectSeq(df_frame_to_burst_id,
                              LAMBDA row : row.burst_ogc_fid = b)
        IN  [k \in DOMAIN rows |-> rows[k].frame_fid]]

\* make_minimal_db: the table written to output_path and the frame
\* returned, df_out; astype(int) raises on a box that is NULL.
make_minimal_db(table, df_frame_to_burst_id) ==
    LET Cast(row) ==
            [OGC_FID |-> row.OGC_FID, burst_id_jpl |-> row.burst_id_jpl,
             epsg |-> row.epsg,
             xmin |-> AsTypeInt(row.xmin), ymin |-> AsTypeInt(row.ymin),
             xmax |-> AsTypeInt(row.xmax), ymax |-> AsTypeInt(row.ymax)]
        lists == _get_burst_to_frame_list(df_frame_to_burst_id)
        df == [i \in DOMAIN table |-> Cast(table[i])]
        merged == SelectSeq(df, LAMBDA row : row.OGC_FID \in DOMAIN lists)
        Column(c) == {table[i][c] : i \in DOMAIN table}
        \* a column of NULLs alone is read as objects, one of numbers and
        \* NULLs as floats with NaN
        Bad(c) == NULL \in Column(c)
        first == CHOOSE k \in 1..4 :
                     /\ Bad(BoxColumns[k])
                     /\ \A j \in 1..(k - 1) : ~Bad(BoxColumns[j])
    IN  IF \E k \in 1..4 : Bad(BoxColumns[k])
        THEN IF Column(BoxColumns[first]) = {NULL}
             THEN Raise("TypeError") ELSE Raise("ValueError")
        ELSE Ok([burst_id_map |-> df,
                 df_out |-> [k \in DOMAIN merged |->
                                [burst_id_jpl |-> merged[k].burst_id_jpl,
                                 epsg |-> merged[k].epsg,
                                 xmin |-> merged[k].xmin,
                                 ymin |-> merged[k].ymin,
                                 xmax |-> merged[k].xmax,
                                 ymax |-> merged[k].ymax,
                                 frame_fid |-> lists[merged[k].OGC_FID]]]])

\* make_burst_to_frame_json: the document handed to _write_zipped_json.
make_burst_to_frame_json(df, metadata) ==
    [data |-> [id \in {df[k].burst_id_jpl : k \in DOMAIN df} |->
                  LET k == CHOOSE j \in DOMAIN df :
                               /\ df[j].burst_id_jpl = id
                               /\ \A m \in DOMAIN df :
                                      df[m].burst_id_jpl = id => m <= j
                  IN  [frame_ids |-> df[k].frame_fid]],
     metadata |-> metadata]

\* MIN and MAX of SQLite over a set of column values: NULLs are passed
\* over, and the aggregate of nothing is NULL.
RealLeq(x, y) == x[1] < y[1] \/ (x[1] = y[1] /\ x[2] <= y[2])
SqlMin(S) ==
    IF S \ {NULL} = {} THEN NULL
    ELSE CHOOSE v \in S \ {NULL} : \A x \in S \ {NULL} : RealLeq(v, x)
SqlMax(S) ==
    IF S \ {NULL} = {} THEN NULL
    ELSE CHOOSE v \in S \ {NULL} : \A x \in S \ {NULL} : RealLeq(x, v)

\* The bursts of frame fid that the query of make_frame_to_burst_json
\* joins, as indexes of table.
JsonGroup(table, fb, fid) ==
    {i \in DOMAIN table :
        \E k \in DOMAIN fb : /\ fb[k].frame_fid = fid
                             /\ fb[k].burst_ogc_fid = table[i].OGC_FID}

\* The orders GROUP_CONCAT may list the bursts of each frame in.
ConcatOrders(table, fb, fr) ==
    {o \in [{fr[n].fid : n \in DOMAIN fr} ->
               UNION {Orderings(JsonGroup(table, fb, fr[n].fid)) :
                         n \in DOMAIN fr}] :
        \A n \in DOMAIN fr :
            o[fr[n].fid] \in Orderings(JsonGroup(table, fb, fr[n].fid))}

\* astype(bool) of a column of flags read from the database: a held flag
\* is itself; a NULL is None and so false in a column of NULLs alone, and
\* NaN and so true in a column that holds numbers too.
AsTypeBool(v, column) ==
    IF v # NULL THEN v[1] ELSE column # {NULL}

\* make_frame_to_burst_json: the document handed to _write_zipped_json;
\* a frame without bursts is not in the join.
make_frame_to_burst_json(table, fb, fr, order, metadata) ==
    LET joined == {n \in DOMAIN fr : JsonGroup(table, fb, fr[n].fid) # {}}
        RowOf(fid) == CHOOSE n \in joined : fr[n].fid = fid
        Col(fid, c) == {table[i][c] : i \in JsonGroup(table, fb, fid)}
    IN  [data |-> [fid \in {fr[n].fid : n \in joined} |->
                      [epsg |-> fr[RowOf(fid)].epsg,
                       is_land |-> fr[RowOf(fid)].is_land,
                       is_north_america |->
                           AsTypeBool(fr[RowOf(fid)].is_north_america,
                                      {fr[n].is_north_america : n \in joined}),
                       xmin |-> SqlMin(Col(fid, "xmin")),
                       ymin |-> SqlMin(Col(fid, "ymin")),
                       xmax |-> SqlMax(Col(fid, "xmax")),
                       ymax |-> SqlMax(Col(fid, "ymax")),
                       burst_ids |->
                           [k \in DOMAIN order[fid] |->
                               table[order[fid][k]].burst_id_jpl]]],
     metadata |-> metadata]

\* The default paths of create and the paths it derives from outfile.  A
\* path is the sequence of the parts the code puts together.
EsaDbPath == <<"burst_map_IW_000001_375887", ".sqlite3">>
Outfile == <<"opera-s1-disp", ".gpkg">>
OutMinimal == <<"opera-s1-disp", "-bbox-only", ".gpkg">>
OutBurstToFrame == <<"opera-s1-disp", "-burst-to-frame.json", ".zip">>
OutFrameToBurst == <<"opera-s1-disp", "-frame-to-burst.json", ".zip">>
CreatePaths ==
    {EsaDbPath, Outfile, OutMinimal, OutBurstToFrame, OutFrameToBurst}

\* Inputs: what ESA's database holds and what the frame definition makes
\* of it: one frame of two bursts, two frames that share a burst, a burst
\* that is in no frame next to one that is, no frame at all, and frames
\* whose ids are not 1, 2, ...: frames 1 and 3 that share a burst, and a
\* single frame 2.
EsaBursts ==
    <<BurstRecord(1, 1, <<"I", "W", "1">>), BurstRecord(1, 1, <<"I", "W", "2">>)>>
CreateInputs ==
    {[esa_db |-> EsaBursts, S |-> {<<1, 1>>, <<1, 2>>},
      land |-> <<FALSE, TRUE>>],
     [esa_db |-> EsaBursts, S |-> {<<1, 1>>, <<2, 1>>, <<2, 2>>},
      land |-> <<TRUE, TRUE>>],
     [esa_db |-> EsaBursts, S |-> {<<1, 1>>}, land |-> <<TRUE, FALSE>>],
     [esa_db |-> SubSeq(EsaBursts, 1, 1), S |-> {}, land |-> <<FALSE>>],
     [esa_db |-> EsaBursts, S |-> {<<1, 1>>, <<1, 2>>, <<3, 2>>},
      land |-> <<TRUE, FALSE>>],
     [esa_db |-> EsaBursts, S |-> {<<2, 1>>, <<2, 2>>},
      land |-> <<FALSE, FALSE>>]}

\* The arguments of create: the defaults, with and without land
\* optimization; version and now are __version__ and the clock.
CreateCalls ==
    {[op |-> "create", input |-> in, margin |-> 100000, snap |-> 600,
      optimize_land |-> ol, target_frame |-> 9, min_frame |-> 5,
      max_frame |-> 10, land_buffer_deg |-> "0.3",
      version |-> "0.3.0", now |-> "2024-01-01T00:00:00",
      df_burst |-> <<>>, frames_bursts |-> <<>>, df_minimal |-> <<>>,
      metadata |-> None] : in \in CreateInputs, ol \in BOOLEAN}

InitCreate ==
    /\ call \in CreateCalls
    /\ ret = Pending
    /\ n_bursts = Unbound
    /\ effects = {}
    /\ cwd = "/home"
    /\ pc = "get_esa_burst_db"
    /\ out = <<>>
    /\ done = <<>>
    /\ gpkg_spatial_ref_sys = {}
    /\ spatial_ref_sys = {}
    /\ burst_id_map = <<>>
    /\ frames = <<>>
    /\ frames_bursts = <<>>
    /\ \E cached, downloaded \in BOOLEAN :
           fs = [path \in LandPaths \cup CreatePaths |->
                    IF path = ZipOf(Format(DefaultOutname, call.land_buffer_deg))
                       /\ cached
                    THEN <<StaleLand>>
                    ELSE IF path = EsaDbPath /\ downloaded
                    THEN <<call.input.esa_db>>
                    ELSE <<>>]

\* create, lines 629-631: the ESA database is fetched when it is not there.
CreateGetEsaBurstDb ==
    /\ pc = "get_esa_burst_db"
    /\ IF fs[EsaDbPath] = <<>>
       THEN /\ fs' = [fs EXCEPT ![EsaDbPath] = <<call.input.esa_db>>]
            /\ done' = Append(done, pc)
       ELSE UNCHANGED <<fs, done>>
    /\ pc' = CreateNext(pc)
    /\ UNCHANGED <<call, ret, burst_id_map, n_bursts, effects, cwd, out,
                   frames, frames_bursts>>
    /\ UNCHANGED srsVars

\* create, lines 633-645: the bursts are read and given their JPL id and
\* the epsg 0.
CreateLoadBursts ==
    /\ pc = "load_bursts"
    /\ LET db == fs[EsaDbPath][1]
           jpl_ids == make_jpl_burst_id(db)
       IN  call' = [call EXCEPT !.df_burst =
                       [i \in DOMAIN db |->
                           ("burst_id_jpl" :> jpl_ids[i])
                           @@ BurstRow(i, 0, PlainEnvelope)]]
    /\ pc' = CreateNext(pc)
    /\ done' = Append(done, pc)
    /\ UNCHANGED <<ret, burst_id_map, n_bursts, fs, effects, cwd, out,
                   frames, frames_bursts>>
    /\ UNCHANGED srsVars

\* create, lines 647-654
CreateSaveBurstIdMap ==
    /\ pc = "save_burst_id_map"
    /\ burst_id_map' = call.df_burst
    /\ pc' = CreateNext(pc)
    /\ done' = Append(done, pc)
    /\ UNCHANGED <<call, ret, n_bursts, fs, effects, cwd, out, frames,
                   frames_bursts>>
    \* a new GeoPackage comes with its reference systems
    /\ gpkg_spatial_ref_sys' = GpkgRows
    /\ UNCHANGED spatial_ref_sys

\* create, lines 657 and 664: the triplets and their land flags, which
\* come with the input.
CreateStep ==
    /\ pc \in {"make_burst_triplets", "get_land_indicator"}
    /\ pc' = CreateNext(pc)
    /\ done' = Append(done, pc)
    /\ UNCHANGED <<call, ret, burst_id_map, n_bursts, fs, effects, cwd, out,
                   frames, frames_bursts>>
    /\ UNCHANGED srsVars

\* create, lines 661-662: get_land_df(land_buffer_deg); an exception ends
\* the build.
CreateGetLandDf ==
    /\ pc = "get_land_df"
    /\ \E net_ok \in BOOLEAN :
           LET r == get_land_df(call.land_buffer_deg, DefaultOutname,
                                "GeoJSON", TRUE, net_ok)
           IN  /\ ret' = r.ret
               /\ fs' = r.fs
               /\ effects' = r.effects
               /\ pc' = IF r.ret.err = "none" THEN CreateNext(pc)
                        ELSE "failed"
    /\ done' = Append(done, pc)
    /\ UNCHANGED <<call, burst_id_map, n_bursts, cwd, out, frames,
                   frames_bursts>>
    /\ UNCHANGED srsVars

\* create, lines 669-675: frames.create_frame_to_burst_mapping; the join
\* table it returns comes with the input.
CreateFrameToBurstMapping ==
    /\ pc = "create_frame_to_burst_mapping"
    /\ call' = [call EXCEPT !.frames_bursts =
                                JoinTable(call.input.S, call.input.land)]
    /\ pc' = CreateNext(pc)
    /\ done' = Append(done, pc)
    /\ UNCHANGED <<ret, burst_id_map, n_bursts, fs, effects, cwd, out,
                   frames, frames_bursts>>
    /\ UNCHANGED srsVars

\* create, line 676: make_frame_to_burst_table
MakeFrameToBurstTable ==
    /\ pc = "make_frame_to_burst_table"
    /\ frames_bursts' = call.frames_bursts
    /\ pc' = CreateNext(pc)
    /\ done' = Append(done, pc)
    /\ UNCHANGED <<call, ret, burst_id_map, n_bursts, fs, effects, cwd, out,
                   frames>>
    /\ UNCHANGED srsVars

\* create, line 701
CreateAddGpkgSpatialRefSys ==
    /\ pc = "add_gpkg_spatial_ref_sys"
    /\ \E engine \in Engines :
           LET r == add_gpkg_spatial_ref_sys(gpkg_spatial_ref_sys, engine)
           IN  /\ gpkg_spatial_ref_sys' = r.gpkg_spatial_ref_sys
               /\ spatial_ref_sys' = r.spatial_ref_sys
    /\ pc' = CreateNext(pc)
    /\ done' = Append(done, pc)
    /\ UNCHANGED <<call, ret, burst_id_map, n_bursts, fs, effects, cwd, out,
                   frames, frames_bursts>>

\* create, line 702
CreateSaveUtmBoundingBoxes ==
    /\ pc = "save_utm_bounding_boxes"
    /\ burst_id_map' = save_utm_bounding_boxes(burst_id_map, call.margin,
                                               call.snap)
    /\ pc' = CreateNext(pc)
    /\ done' = Append(done, pc)
    /\ UNCHANGED <<call, ret, n_bursts, fs, effects, cwd, out, frames,
                   frames_bursts>>
    /\ UNCHANGED srsVars

\* create, lines 705-713; an exception ends the build.
MakeMinimalDb ==
    /\ pc = "make_minimal_db"
    /\ LET r == make_minimal_db(burst_id_map, call.frames_bursts)
       IN  IF r.err = "none"
           THEN /\ fs' = [fs EXCEPT ![OutMinimal] =
                             <<[burst_id_map |-> r.val.burst_id_map,
                                metadata |-> None]>>]
                /\ call' = [call EXCEPT !.df_minimal = r.val.df_out]
                /\ pc' = CreateNext(pc)
                /\ UNCHANGED ret
           ELSE /\ ret' = r
                /\ pc' = "failed"
                /\ UNCHANGED <<fs, call>>
    /\ done' = Append(done, pc)
    /\ UNCHANGED <<burst_id_map, n_bursts, effects, cwd, out, frames,
                   frames_bursts>>
    /\ UNCHANGED srsVars

\* create, lines 716-718
GetMetadata ==
    /\ pc = "_get_metadata"
    /\ call' = [call EXCEPT !.metadata =
                   <<_get_metadata(call.margin, call.snap, call.target_frame,
                                   call.land_buffer_deg, call.optimize_land,
                                   call.min_frame, call.max_frame)>>]
    /\ pc' = CreateNext(pc)
    /\ done' = Append(done, pc)
    /\ UNCHANGED <<ret, burst_id_map, n_bursts, fs, effects, cwd, out,
                   frames, frames_bursts>>
    /\ UNCHANGED srsVars

\* create, lines 722-724
MakeBurstToFrameJson ==
    /\ pc = "make_burst_to_frame_json"
    /\ fs' = [fs EXCEPT ![OutBurstToFrame] =
                 <<make_burst_to_frame_json(call.df_minimal,
                                            call.metadata[1])>>]
    /\ pc' = CreateNext(pc)
    /\ done' = Append(done, pc)
    /\ UNCHANGED <<call, ret, burst_id_map, n_bursts, effects, cwd, out,
                   frames, frames_bursts>>
    /\ UNCHANGED srsVars

\* create, lines 726-729
MakeFrameToBurstJson ==
    /\ pc = "make_frame_to_burst_json"
    /\ \E order \in ConcatOrders(burst_id_map, frames_bursts, frames) :
           fs' = [fs EXCEPT ![OutFrameToBurst] =
                     <<make_frame_to_burst_json(burst_id_map, frames_bursts,
                                                frames, order,
                                                call.metadata[1])>>]
    /\ pc' = CreateNext(pc)
    /\ done' = Append(done, pc)
    /\ UNCHANGED <<call, ret, burst_id_map, n_bursts, effects, cwd, out,
                   frames, frames_bursts>>
    /\ UNCHANGED srsVars

\* create, lines 732 and 733: create_metadata_table on outfile, then on
\* the minimal database.  Of outfile, whose other tables are burst_id_map,
\* frames_bursts and frames, fs holds the metadata table.
CreateMetadataTable ==
    /\ \/ /\ pc = "create_metadata_table"
          /\ fs' = [fs EXCEPT ![Outfile] = <<[metadata |-> call.metadata]>>]
          /\ UNCHANGED ret
       \/ /\ pc = "create_metadata_table_minimal"
          /\ fs' = [fs EXCEPT ![OutMinimal] =
                       <<[fs[OutMinimal][1] EXCEPT
                             !.metadata = call.metadata]>>]
          /\ ret' = Ok(None)
    /\ pc' = CreateNext(pc)
    /\ done' = Append(done, pc)
    /\ UNCHANGED <<call, burst_id_map, n_bursts, effects, cwd, out, frames,
                   frames_bursts>>
    /\ UNCHANGED srsVars

NextCreate ==
    \/ CreateGetEsaBurstDb
    \/ CreateLoadBursts
    \/ CreateSaveBurstIdMap
    \/ CreateStep
    \/ CreateGetLandDf
    \/ CreateFrameToBurstMapping
    \/ CreateAddGpkgSpatialRefSys
    \/ MakeFrameToBurstTable
    \/ MakeFrameTable
    \/ SaveFrames
    \/ UpdateBurstEpsg
    \/ CreateSaveUtmBoundingBoxes
    \/ MakeMinimalDb
    \/ GetMetadata
    \/ MakeBurstToFrameJson
    \/ MakeFrameToBurstJson
    \/ CreateMetadataTable

SpecCreate == InitCreate /\ [][NextCreate]_vars

BaseKeys ==
    {"margin", "snap", "target_frame_size", "version", "last_modified",
     "land_buffer_deg", "land_optimized", "usgs_land_shape_url",
     "greenland_shape_url", "esa_burst_db_url"}

\* C16: the record _get_metadata returns has the keys min_frame_size and
\* max_frame_size exactly when optimize_land is true, and the ten base keys
\* in both cases; each key carries the value of the run: the arguments of
\* create, the version, the time of the call and the three URLs.
C16_MetadataKeys ==
    (call.op = "create" /\ call.metadata # None) =>
        LET md == call.metadata[1]
        IN  /\ DOMAIN md = BaseKeys \cup
                   (IF call.optimize_land
                    THEN {"min_frame_size", "max_frame_size"} ELSE {})
            /\ md.margin = call.margin
            /\ md.snap = call.snap
            /\ md.target_frame_size = call.target_frame
            /\ md.version = call.version
            /\ md.last_modified = call.now
            /\ md.land_buffer_deg = call.land_buffer_deg
            /\ md.land_optimized = call.optimize_land
            /\ md.usgs_land_shape_url = USGS_LAND_URL
            /\ md.greenland_shape_url = GREENLAND_URL
            /\ md.esa_burst_db_url = ESA_DB_URL
            /\ call.optimize_land =>
                   /\ md.min_frame_size = call.min_frame
                   /\ md.max_frame_size = call.max_frame

\* _get_metadata has returned the record of a run with land optimization.
C16_Witness ==
    /\ call.op = "create"
    /\ call.metadata # None
    /\ call.optimize_land
    /\ "min_frame_size" \in DOMAIN call.metadata[1]
    /\ done[Len(done)] = "_get_metadata"

\* Step b is in done only behind step a.
Before(a, b) ==
    \A j \in DOMAIN done :
        done[j] = b => \E i \in 1..(j - 1) : done[i] = a

\* The files the build writes once the boxes are saved.
Products == {OutMinimal, OutBurstToFrame, OutFrameToBurst, Outfile}

\* C20: the steps of create run one after the other in the order of the
\* code, none twice; save_utm_bounding_boxes runs behind update_burst_epsg
\* and add_gpkg_spatial_ref_sys, which run behind make_frame_table and the
\* saving of the frames with their codes; the minimal database, the two
\* JSON exports and the metadata tables are written behind
\* save_utm_bounding_boxes.
C20_CreateOrder ==
    /\ \A j \in DOMAIN done :
           j > 1 => done[j] = NextIn(CreateSteps, done[j - 1])
    /\ Before("update_burst_epsg", "save_utm_bounding_boxes")
    /\ Before("add_gpkg_spatial_ref_sys", "save_utm_bounding_boxes")
    /\ \A b \in {"update_burst_epsg", "add_gpkg_spatial_ref_sys"} :
           Before("make_frame_table", b) /\ Before("save_frames", b)
    /\ \A b \in {"make_minimal_db", "make_burst_to_frame_json",
                 "make_frame_to_burst_json", "create_metadata_table",
                 "create_metadata_table_minimal"} :
           Before("save_utm_bounding_boxes", b)
    /\ \A path \in Products :
           fs[path] # <<>> =>
               \E j \in DOMAIN done : done[j] = "save_utm_bounding_boxes"
    /\ \A i \in DOMAIN burst_id_map :
           burst_id_map[i].xmin # NULL =>
               \E j \in DOMAIN done : done[j] = "update_burst_epsg"

\* A build has run to its end and has written every product.
C20_Witness ==
    /\ pc = "returned"
    /\ \A path \in Products : fs[path] # <<>>
    /\ \A k \in 2..Len(CreateSteps) :
           \E j \in DOMAIN done : done[j] = CreateSteps[k]

(***************************************************************************)
(* Claim about the two JSON exports of one build.                          *)
(***************************************************************************)
Elems(seq) == {seq[k] : k \in DOMAIN seq}

\* Both exports of the build are written.
BothExports == fs[OutBurstToFrame] # <<>> /\ fs[OutFrameToBurst] # <<>>

\* The frames of the join table that hold the burst of the given OGC_FID, in
\* the order of the table.
FramesOfBurst(ogc_fid) ==
    LET rows == SelectSeq(frames_bursts,
                          LAMBDA row : row.burst_ogc_fid = ogc_fid)
    IN  [k \in DOMAIN rows |-> rows[k].frame_fid]

(* path is its directory components and the pieces of its file name; a     *)
(* Python value and a JSON text are trees of tagged records.               *)
(***************************************************************************)
PyInt(i) == [t |-> "int", i |-> i]
PyStr(s) == [t |-> "str", s |-> s]
PyList(l) == [t |-> "list", l |-> l]
PyTuple(l) == [t |-> "tuple", l |-> l]
PyDict(d) == [t |-> "dict", d |-> d]
Item(k, v) == [k |-> k, v |-> v]

\* json.dumps: integers and strings become numbers and strings, lists and
\* tuples become arrays, a dict becomes an object whose keys are strings, an
\* integer key being written as its decimal text.
RECURSIVE json_dumps(_)
json_dumps(x) ==
    CASE x.t = "int" -> [t |-> "number", i |-> x.i]
      [] x.t = "str" -> [t |-> "string", s |-> x.s]
      [] x.t \in {"list", "tuple"} ->
            [t |-> "array", l |-> [k \in DOMAIN x.l |-> json_dumps(x.l[k])]]
      [] x.t = "dict" ->
            [t |-> "object",
             d |-> [k \in DOMAIN x.d |->
                      Item(IF x.d[k].k.t = "int" THEN Str(x.d[k].k.i)
                           ELSE x.d[k].k.s,
                           json_dumps(x.d[k].v))]]

\* json.loads: numbers and strings become int and str, an array becomes a
\* list, an object becomes a dict with str keys; of the members with one
\* key the last gives the value, at the place of the first.
RECURSIVE json_loads(_)
json_loads(j) ==
    CASE j.t = "number" -> PyInt(j.i)
      [] j.t = "string" -> PyStr(j.s)
      [] j.t = "array" -> PyList([k \in DOMAIN j.l |-> json_loads(j.l[k])])
      [] j.t = "object" ->
            LET first == SelectSeq([k \in DOMAIN j.d |-> k],
                                   LAMBDA k : \A m \in 1..(k - 1) :
                                                  j.d[m].k # j.d[k].k)
                last(k) == CHOOSE m \in DOMAIN j.d :
                               /\ j.d[m].k = j.d[k].k
                               /\ \A n \in DOMAIN j.d :
                                      j.d[n].k = j.d[k].k => n <= m
            IN  PyDict([n \in DOMAIN first |->
                          Item(PyStr(j.d[first[n]].k),
                               json_loads(j.d[last(first[n])].v))])

PathOf(dirs, name) == [dirs |-> dirs, name |-> name]

\* str(json_path) + ".zip"
ZipPathOf(json_path) == PathOf(json_path.dirs, json_path.name \o <<".zip">>)

\* _write_zipped_json, lines 505-510: a new archive at json_path + ".zip"
\* with one entry, named by the whole of json_path, holding the JSON text.
\* The result is the file system after the call.
_write_zipped_json(files, json_path, dict_out) ==
    (ZipPathOf(json_path)
         :> <<[name |-> json_path, data |-> json_dumps(dict_out)]>>)
    @@ files

\* read_zipped_json, lines 562-565: reads the entry named by the last
\* component of filename without any ".zip" in it, and parses it.
read_zipped_json(files, filename) ==
    IF filename \notin DOMAIN files THEN Raise("FileNotFoundError")
    ELSE LET zf == files[filename]
             member == PathOf(<<>>, replace(filename.name, ".zip"))
             found == {k \in DOMAIN zf : zf[k].name = member}
         IN  IF found = {} THEN Raise("KeyError")
             ELSE Ok(json_loads(
                     zf[CHOOSE k \in found : \A m \in found : m <= k].data))

\* Output paths: in the working directory, under one or two directories,
\* behind "./"; plain names and a name holding ".zip" in its middle.
JsonDirs == {<<>>, <<"out">>, <<".">>, <<"out", "v1">>}
JsonNames ==
    {<<"opera-s1-disp", "-burst-to-frame", ".json">>,
     <<"opera-s1-disp", "-frame-to-burst", ".json">>,
     <<"frames", ".zip", "ped", ".json">>}
JsonPaths == {PathOf(d, n) : d \in JsonDirs, n \in JsonNames}

\* JSON documents of the shape of the two exports, and the empty object.
JsonDocs ==
    {PyDict(<<>>),
     PyDict(<<Item(PyStr(<<"data">>),
                   PyDict(<<Item(PyStr(<<"t001_000001_iw1">>),
                                 PyDict(<<Item(PyStr(<<"frame_ids">>),
                                               PyList(<<PyInt(1),
                                                        PyInt(2)>>))>>))>>)),
              Item(PyStr(<<"metadata">>),
                   PyDict(<<Item(PyStr(<<"version">>),
                                 PyStr(<<"0.3.0">>))>>))>>),
     PyDict(<<Item(PyStr(<<"data">>),
                   PyDict(<<Item(PyStr(<<"1">>),
                                 PyDict(<<Item(PyStr(<<"burst_ids">>),
                                               PyList(<<PyStr(
                                                   <<"t001_000001_iw1">>)>>
                                               ))>>))>>)),
              Item(PyStr(<<"metadata">>), PyDict(<<>>))>>)}

\* Python values that are no JSON documents: an integer key, a tuple.
PyDocs ==
    {PyDict(<<Item(PyInt(1), PyTuple(<<PyInt(1), PyInt(2)>>))>>),
     PyDict(<<Item(PyInt(12), PyStr(<<"a">>)),
              Item(PyStr(<<"1", "2">>), PyStr(<<"b">>))>>)}

InitZip ==
    /\ call = [op |-> "none"]
    /\ ret = Pending
    /\ burst_id_map = <<>>
    /\ n_bursts = Unbound
    /\ fs = NoFiles
    /\ effects = {}
    /\ BuildIdle

WriteZippedJson ==
    \E json_path \in JsonPaths, dict_out \in JsonDocs \cup PyDocs :
        /\ call.op = "none"
        /\ call' = [op |-> "_write_zipped_json", json_path |-> json_path,
                    dict_out |-> dict_out]
        /\ fs' = _write_zipped_json(fs, json_path, dict_out)
        /\ ret' = Ok(None)
        /\ UNCHANGED <<burst_id_map, n_bursts, effects>>
        /\ UNCHANGED buildVars

\* read_zipped_json(json_path + ".zip") behind the write.
ReadZippedJson ==
    /\ call.op = "_write_zipped_json"
    /\ call' = [call EXCEPT !.op = "read_zipped_json"]
    /\ ret' = read_zipped_json(fs, ZipPathOf(call.json_path))
    /\ UNCHANGED <<burst_id_map, n_bursts, fs, effects>>
    /\ UNCHANGED buildVars

NextZip == WriteZippedJson \/ ReadZippedJson

SpecZip == InitZip /\ [][NextZip]_vars

\* C25: for every output path, with or without a directory, and every JSON
\* document d, read_zipped_json(json_path + ".zip") behind
\* _write_zipped_json(json_path, d) returns a document equal to d, and the
\* archive holds exactly one entry, named by the uncompressed file name.
C25_ZipRoundTrip ==
    (call.op = "read_zipped_json" /\ call.dict_out \in JsonDocs) =>
        LET zf == fs[ZipPathOf(call.json_path)]
        IN  /\ ret = Ok(call.dict_out)
            /\ Len(zf) = 1
            /\ zf[1].name = PathOf(<<>>, call.json_path.name)

====
